---- MODULE Spec2Model ----
(***************************************************************************)
(* Trade authorization pipeline of the Polymarket Discord bot:             *)
(* DiscordMessageRouter (routeMessage / handleWrite, executePendingTrade,  *)
(* cancelPendingTrade, the purge timer), the spend ledger of               *)
(* storage/limits.ts, validateAgentOutput, buildTradeRequest and the       *)
(* execution boundary (UserAccountTrader.placeTrade over the CLOB gateway).*)
(*                                                                         *)
(* Time is the value of Date.now() in milliseconds.  An async function is  *)
(* cut at its awaits: one action is the synchronous run between two        *)
(* suspension points (Node runs such a run without interleaving).          *)
(***************************************************************************)
EXTENDS Integers, Sequences, FiniteSets, TLC

(***************************************************************************)
(* Program constants                                                       *)
(***************************************************************************)
DAILY_LIMIT_CENTS == 500
HOURLY_LIMIT_CENTS == 500
DAILY_LIMIT_CENTS_STUB == 500
SPENT_THIS_HOUR_CENTS_STUB == 0
DAY_MS == 86400000
PENDING_TTL_MS == 5 * 60 * 1000
IDEMPOTENCY_WINDOW_MS == 5 * 60 * 1000
CLOB_MIN_ORDER_CENTS == 500
OWNER_DISCORD_ID == "owner"
LEADER_WALLET == "0xleader"
COOLDOWN_MS == 5000
CONFIRM_TIMEOUT_MS == 60000
MAX_SESSIONS == 10000
PROCESSED_MAX == 500
PROCESSED_EVICT == 100
GEMINI_COOLDOWN_MS == 60000
SESSION_TTL_MS == 10 * 60 * 1000

(***************************************************************************)
(* Bounds of the model                                                     *)
(***************************************************************************)
MaxTasks == 2
NumGeminiKeys == 3
MaxGeminiCalls == 2
MaxGeminiTicks == 3
MaxConfirm == 2
MaxTicks == 2
MaxSpendCalls == 2
MaxDays == 2
MaxBuilt == 3
MaxWords == 4
MaxObserved == 6
MaxBotTicks == 1
MaxSessionCalls == 3
MaxSessionTicks == 3

\* The clock is observed every 5 minutes, from 5 minutes before a UTC
\* midnight: a confirmation is seen at its creation, at the instant of its
\* expiry and after it; each observation falls in a new idempotency window
CLOCK_STEP_MS == 5 * 60 * 1000
StartMs == DAY_MS - CLOCK_STEP_MS

Users == {"u1", OWNER_DISCORD_ID}
Actions == {"BUY", "SELL"}
Outcomes == {"YES"}
Amounts == {500, 600}
MarketIds == {"m1"}
MarketStatuses == {"active", "closed", "paused"}
ConfirmIds == 1..MaxConfirm
TaskIds == 1..MaxTasks

VARIABLES
    nowMs,          \* Date.now()
    spendLedger,    \* limits.ts: Map<DiscordUserId, Map<dayKey, cents>>
    pendingTrades,  \* router: Map<confirmId, {execute, expiresAtMs}>
    nextConfirmId,  \* freshness of crypto.randomUUID()
    tasks,          \* in-flight routeMessage calls and their position
    executions,     \* execute closures awaiting placeTrade
    gatewayCalls,   \* per confirmation id, the gateway invocations made for it
    cancelled,      \* per confirmation id, the cancelPendingTrade calls that returned true
    trades,         \* the exchange: idempotency keys of the orders it filled
    lastResult,     \* value returned to a caller by the step just taken, if any
    redisAvailable, \* limits.ts: getRedis() is not null (REDIS_URL is set)
    redisStore,     \* the Redis keys of the spend ledger, each with its expiry time
    spendCalls,     \* trySpend calls whose redis.eval is in flight
    granted,        \* per (user, day), the total of the amounts trySpend returned true for
    spendResult,    \* value returned by the trySpend step just taken, if any
    built,          \* TradeRequests returned by direct calls of buildTradeRequest
    validated,      \* the last direct call of validateAgentOutput: its arguments and result
    classified,     \* the last direct call of classifyMessageIntent: its argument and result
    routed,         \* the routeMessage call that is followed from its text on
    observed,       \* the last ledger call made on both stores, with what each returned
    userCooldowns,  \* index.ts: Map<discordUserId, time of the last accepted command>
    gatewayLog,     \* per user, the times at which the gateway was invoked for them
    sessions,       \* authServer.ts: Map<sessionId, LinkSession>, as the number of sessions per expiry time
    sessionCalls,   \* the session-creating requests made so far
    parseCall,      \* the last direct call of parseIntent: its inputs and result
    traderCalls,    \* the direct calls of placeTrade: what the gateway did and the TradeResult
    processedMessages, \* index.ts: Set<message id>, in insertion order
    routedTimes,    \* per message id, how often the handler passed it to router.routeMessage
    nextMessageId,  \* the id Discord gives the next new message
    byDiscordUserId, \* InMemoryAccountLinkChallengeStore: Map<DiscordUserId, AccountLinkChallenge>
    ownerByNonce,   \* InMemoryAccountLinkChallengeStore: Map<nonce, DiscordUserId>
    nextNonce,      \* freshness of createNonce()
    verifyCalls,    \* verifyLink calls between validateWithoutConsume and consumeChallenge
    verifyOk,       \* per nonce, the verifyLink calls that returned ok
    geminiKeyStates, \* aiClient.ts: per configured key, its disabledUntil (epoch ms, 0 = available)
    geminiCall,     \* the callGeminiFallback call: its position, triedKeys, requests made, result
    geminiCalls     \* the callGeminiFallback calls made so far

vars == <<nowMs, spendLedger, pendingTrades, nextConfirmId, tasks, executions, gatewayCalls, cancelled, trades, lastResult, redisAvailable, redisStore, spendCalls, granted, spendResult, built, validated, classified, routed, observed, userCooldowns, gatewayLog, sessions, sessionCalls, parseCall, traderCalls, processedMessages, routedTimes, nextMessageId, byDiscordUserId, ownerByNonce, nextNonce, verifyCalls, verifyOk, geminiKeyStates, geminiCall, geminiCalls>>

\* the state of the router and of the exchange behind it
routerVars == <<pendingTrades, nextConfirmId, tasks, executions, gatewayCalls, cancelled, trades, lastResult>>

\* the state of the direct calls of trySpend
spendVars == <<redisAvailable, redisStore, spendCalls, granted, spendResult>>

\* what the direct calls of the pure functions returned
callVars == <<built, validated, classified, observed>>

\* the state of the Discord transport around the router
botVars == <<userCooldowns, gatewayLog>>

\* the state of the auth server
authVars == <<sessions, sessionCalls>>

\* what the direct call of parseIntent returned
parseVars == <<parseCall>>

\* what the other components called directly keep and return
directVars == <<traderCalls, processedMessages, routedTimes, nextMessageId, byDiscordUserId, ownerByNonce, nextNonce, verifyCalls, verifyOk, geminiKeyStates, geminiCall, geminiCalls>>

\* the Gemini keys and the call that rotates through them
geminiVars == <<geminiKeyStates, geminiCall, geminiCalls>>

\* the account-link challenges and the verifications in flight
linkVars == <<byDiscordUserId, ownerByNonce, nextNonce, verifyCalls, verifyOk>>

\* the message handler's record of the messages it has seen
dedupVars == <<processedMessages, routedTimes, nextMessageId>>

(***************************************************************************)
(* storage/limits.ts                                                       *)
(***************************************************************************)
isOwnerExempt(discordUserId) == discordUserId = OWNER_DISCORD_ID

\* toISOString().slice(0, 10): the UTC calendar day, as a day number
utcDateKey(t) == t \div DAY_MS

\* an eviction that keeps the bucket of today only
evictStaleEntries_TodayOnly(userMap, t) ==
    [k \in {k \in DOMAIN userMap : k = utcDateKey(t)} |-> userMap[k]]

\* the user's day map after evictStaleEntries(userMap) at time t
evictStaleEntries(userMap, t) ==
    LET today == utcDateKey(t)
        yesterday == utcDateKey(t - DAY_MS)
        keep == {k \in DOMAIN userMap : k = today \/ k = yesterday}
    IN  [k \in keep |-> userMap[k]]

\* value returned by memGetSpent
memGetSpent(ledger, u, t) ==
    IF u \notin DOMAIN ledger THEN 0
    ELSE LET m == evictStaleEntries(ledger[u], t)
         IN  IF utcDateKey(t) \in DOMAIN m THEN m[utcDateKey(t)] ELSE 0

\* the ledger after memGetSpent (it evicts the user's stale buckets)
memGetSpentLedger(ledger, u, t) ==
    IF u \notin DOMAIN ledger THEN ledger
    ELSE [ledger EXCEPT ![u] = evictStaleEntries(ledger[u], t)]

\* memRecordSpend that sets the day's counter to the amount
memRecordSpend_Overwrite(ledger, u, amountCents, t) ==
    LET dayKey == utcDateKey(t)
        userMap == IF u \in DOMAIN ledger THEN ledger[u] ELSE << >>
        newMap == [k \in DOMAIN userMap \cup {dayKey} |->
                     IF k = dayKey THEN amountCents ELSE userMap[k]]
    IN  [x \in DOMAIN ledger \cup {u} |-> IF x = u THEN newMap ELSE ledger[x]]

\* the ledger after memRecordSpend
memRecordSpend(ledger, u, amountCents, t) ==
    LET dayKey == utcDateKey(t)
        userMap == IF u \in DOMAIN ledger THEN ledger[u] ELSE << >>
        current == IF dayKey \in DOMAIN userMap THEN userMap[dayKey] ELSE 0
        newMap == [k \in DOMAIN userMap \cup {dayKey} |->
                     IF k = dayKey THEN current + amountCents ELSE userMap[k]]
    IN  [x \in DOMAIN ledger \cup {u} |-> IF x = u THEN newMap ELSE ledger[x]]

Max(a, b) == IF a >= b THEN a ELSE b

getSpentToday(ledger, u, t) == memGetSpent(ledger, u, t)

getRemainingToday(ledger, u, t) ==
    Max(0, DAILY_LIMIT_CENTS - getSpentToday(ledger, u, t))

canSpend(ledger, u, amountCents, t) ==
    getSpentToday(ledger, u, t) + amountCents <= DAILY_LIMIT_CENTS

recordSpend(ledger, u, amountCents, t) == memRecordSpend(ledger, u, amountCents, t)

REDIS_PREFIX == "polybot:spend"

REDIS_TTL_SECONDS == 48 * 60 * 60

\* redisKey that leaves the day out
redisKey_NoDay(discordUserId, t) == REDIS_PREFIX \o ":" \o discordUserId

redisKey(discordUserId, t) ==
    REDIS_PREFIX \o ":" \o discordUserId \o ":" \o ToString(utcDateKey(t))

\* the server holds the key at time t: it was set and its expiry, if it has
\* one, has not come
RedisExists(store, key, t) ==
    key \in DOMAIN store /\ ("expiresAtMs" \in DOMAIN store[key] => t < store[key].expiresAtMs)

\* the store after INCRBY key amount at server time t: a key that exists
\* keeps its expiry, a new one has none
redisIncrBy(store, key, amount, t) ==
    LET entry == IF RedisExists(store, key, t)
                 THEN [store[key] EXCEPT !.value = @ + amount]
                 ELSE [value |-> amount]
    IN  [k \in DOMAIN store \cup {key} |-> IF k = key THEN entry ELSE store[k]]

\* the store after EXPIRE key ttl at server time t
redisExpire(store, key, ttl, t) ==
    IF RedisExists(store, key, t)
    THEN [store EXCEPT ![key] = [value |-> @.value, expiresAtMs |-> t + ttl * 1000]]
    ELSE store

\* tonumber(redis.call('GET', key) or '0') at server time t.  The counters
\* are written by INCRBY only, so a value is the decimal form of an integer
\* and tonumber() gives that integer
RedisGetNumber(store, key, t) == IF RedisExists(store, key, t) THEN store[key].value ELSE 0

\* TRY_SPEND_LUA that compares the counter alone with the limit
TRY_SPEND_LUA_NoAmount(store, key, amount, limit, ttl, t) ==
    LET current == RedisGetNumber(store, key, t)
    IN  IF current > limit
        THEN [result |-> 0, store |-> store]
        ELSE [result |-> 1,
              store |-> [k \in DOMAIN store \cup {key} |->
                           IF k = key THEN [value |-> current + amount, expiresAtMs |-> t + ttl * 1000]
                           ELSE store[k]]]

\* one atomic run of TRY_SPEND_LUA on the server at time t: the script's
\* return value and the store it leaves (INCRBY, then EXPIRE key ttl)
TRY_SPEND_LUA(store, key, amount, limit, ttl, t) ==
    LET current == RedisGetNumber(store, key, t)
    IN  IF current + amount > limit
        THEN [result |-> 0, store |-> store]
        ELSE [result |-> 1,
              store |-> [k \in DOMAIN store \cup {key} |->
                           IF k = key THEN [value |-> current + amount, expiresAtMs |-> t + ttl * 1000]
                           ELSE store[k]]]

(***************************************************************************)
(* backend/validateAgentOutput.ts                                          *)
(***************************************************************************)
NULL == "null"

OkResult == [ok |-> TRUE, code |-> "OK"]
ErrResult(c) == [ok |-> FALSE, code |-> c]

\* A JS number amountCents is an integer plus a fraction in tenths; an intent
\* without the field amountTenths has an integer amount
amountTenths(agentOutput) ==
    IF "amountTenths" \in DOMAIN agentOutput THEN agentOutput.amountTenths ELSE 0

\* Number.isInteger(agentOutput.amountCents)
NumberIsInteger(agentOutput) == amountTenths(agentOutput) = 0

\* validateAgentOutput that refuses an amount equal to the remaining allowance
validateAgentOutput_StrictRemaining(agentOutput, context) ==
    IF context.polymarketAccountId = NULL
    THEN ErrResult("ACCOUNT_NOT_CONNECTED")
    ELSE IF context.marketLookup[agentOutput.marketId] = NULL
    THEN ErrResult("INVALID_MARKET")
    ELSE IF context.marketLookup[agentOutput.marketId] # "active"
    THEN ErrResult("MARKET_NOT_ACTIVE")
    ELSE IF ~NumberIsInteger(agentOutput)
    THEN ErrResult("INVALID_AMOUNT")
    ELSE IF agentOutput.amountCents <= 0
    THEN ErrResult("INVALID_AMOUNT")
    ELSE IF agentOutput.amountCents >= context.remainingDailyLimitCents
    THEN ErrResult("LIMIT_EXCEEDED")
    ELSE IF context.spentThisHourCents + agentOutput.amountCents > HOURLY_LIMIT_CENTS
    THEN ErrResult("LIMIT_EXCEEDED")
    ELSE OkResult

\* validateAgentOutput without the Number.isInteger check
validateAgentOutput_NoIntegerCheck(agentOutput, context) ==
    IF context.polymarketAccountId = NULL
    THEN ErrResult("ACCOUNT_NOT_CONNECTED")
    ELSE IF context.marketLookup[agentOutput.marketId] = NULL
    THEN ErrResult("INVALID_MARKET")
    ELSE IF context.marketLookup[agentOutput.marketId] # "active"
    THEN ErrResult("MARKET_NOT_ACTIVE")
    ELSE IF agentOutput.amountCents <= 0
    THEN ErrResult("INVALID_AMOUNT")
    ELSE IF agentOutput.amountCents > context.remainingDailyLimitCents
    THEN ErrResult("LIMIT_EXCEEDED")
    ELSE IF context.spentThisHourCents + agentOutput.amountCents > HOURLY_LIMIT_CENTS
    THEN ErrResult("LIMIT_EXCEEDED")
    ELSE OkResult

\* validateAgentOutput that checks the amount before the market
validateAgentOutput_AmountFirst(agentOutput, context) ==
    IF context.polymarketAccountId = NULL
    THEN ErrResult("ACCOUNT_NOT_CONNECTED")
    ELSE IF ~NumberIsInteger(agentOutput)
    THEN ErrResult("INVALID_AMOUNT")
    ELSE IF agentOutput.amountCents <= 0
    THEN ErrResult("INVALID_AMOUNT")
    ELSE IF context.marketLookup[agentOutput.marketId] = NULL
    THEN ErrResult("INVALID_MARKET")
    ELSE IF context.marketLookup[agentOutput.marketId] # "active"
    THEN ErrResult("MARKET_NOT_ACTIVE")
    ELSE IF agentOutput.amountCents > context.remainingDailyLimitCents
    THEN ErrResult("LIMIT_EXCEEDED")
    ELSE IF context.spentThisHourCents + agentOutput.amountCents > HOURLY_LIMIT_CENTS
    THEN ErrResult("LIMIT_EXCEEDED")
    ELSE OkResult

\* agentOutput is a place_bet intent; context.marketLookup is a function
\* from market ids to a status or NULL
validateAgentOutput(agentOutput, context) ==
    IF context.polymarketAccountId = NULL
    THEN ErrResult("ACCOUNT_NOT_CONNECTED")
    ELSE IF context.marketLookup[agentOutput.marketId] = NULL
    THEN ErrResult("INVALID_MARKET")
    ELSE IF context.marketLookup[agentOutput.marketId] # "active"
    THEN ErrResult("MARKET_NOT_ACTIVE")
    ELSE IF ~NumberIsInteger(agentOutput)
    THEN ErrResult("INVALID_AMOUNT")
    ELSE IF agentOutput.amountCents <= 0
    THEN ErrResult("INVALID_AMOUNT")
    ELSE IF agentOutput.amountCents > context.remainingDailyLimitCents
    THEN ErrResult("LIMIT_EXCEEDED")
    ELSE IF context.spentThisHourCents + agentOutput.amountCents > HOURLY_LIMIT_CENTS
    THEN ErrResult("LIMIT_EXCEEDED")
    ELSE OkResult

\* backend/buildValidationContext.ts, with the router's marketLookup override
buildValidationContext(accountId, lookup) ==
    [polymarketAccountId |-> accountId,
     remainingDailyLimitCents |-> DAILY_LIMIT_CENTS_STUB,
     spentThisHourCents |-> SPENT_THIS_HOUR_CENTS_STUB,
     marketLookup |-> lookup]

(***************************************************************************)
(* backend/buildTradeRequest.ts                                            *)
(***************************************************************************)
\* [discordUserId, polymarketAccountId, marketId, outcome, amountCents,
\*  bucket].join(':')
\* createDeterministicIdempotencyKey that joins the time, not its bucket
createDeterministicIdempotencyKey_RawTime(input) ==
    input.discordUserId \o ":" \o input.polymarketAccountId \o ":"
    \o input.marketId \o ":" \o input.outcome \o ":"
    \o ToString(input.amountCents) \o ":" \o ToString(input.nowMs)

createDeterministicIdempotencyKey(input) ==
    LET bucket == input.nowMs \div input.windowMs
    IN  input.discordUserId \o ":" \o input.polymarketAccountId \o ":"
        \o input.marketId \o ":" \o input.outcome \o ":"
        \o ToString(input.amountCents) \o ":" \o ToString(bucket)

\* buildTradeRequest whose key also carries the action
buildTradeRequest_ActionInKey(agentOutput, context) ==
    [discordUserId |-> context.discordUserId,
     polymarketAccountId |-> context.polymarketAccountId,
     marketId |-> context.marketId,
     outcome |-> agentOutput.outcome,
     action |-> IF agentOutput.action = NULL THEN "BUY" ELSE agentOutput.action,
     amountCents |-> agentOutput.amountCents,
     idempotencyKey |-> createDeterministicIdempotencyKey(
        [discordUserId |-> context.discordUserId,
         polymarketAccountId |-> context.polymarketAccountId,
         marketId |-> context.marketId,
         outcome |-> agentOutput.outcome,
         amountCents |-> agentOutput.amountCents,
         nowMs |-> context.nowMs,
         windowMs |-> IDEMPOTENCY_WINDOW_MS])
        \o ":" \o (IF agentOutput.action = NULL THEN "BUY" ELSE agentOutput.action),
     requestedAtMs |-> context.nowMs]

\* context = [discordUserId, polymarketAccountId, marketId, nowMs]
buildTradeRequest(agentOutput, context) ==
    [discordUserId |-> context.discordUserId,
     polymarketAccountId |-> context.polymarketAccountId,
     marketId |-> context.marketId,
     outcome |-> agentOutput.outcome,
     action |-> IF agentOutput.action = NULL THEN "BUY" ELSE agentOutput.action,
     amountCents |-> agentOutput.amountCents,
     idempotencyKey |-> createDeterministicIdempotencyKey(
        [discordUserId |-> context.discordUserId,
         polymarketAccountId |-> context.polymarketAccountId,
         marketId |-> context.marketId,
         outcome |-> agentOutput.outcome,
         amountCents |-> agentOutput.amountCents,
         nowMs |-> context.nowMs,
         windowMs |-> IDEMPOTENCY_WINDOW_MS]),
     requestedAtMs |-> context.nowMs]

(***************************************************************************)
(* discord/classifyMessageIntent.ts                                        *)
(*                                                                         *)
(* A message is the sequence of its lexemes: words, a question mark, a     *)
(* money amount, a run of blanks.  A pattern of \b-delimited alternatives  *)
(* is the set of its one-word alternatives, and it matches a message that  *)
(* holds one of them as a lexeme.                                          *)
(***************************************************************************)
Blank == " "

\* the lexemes messages are made of
Words == {Blank, "?", "what", "balance", "buy", "BUY", "market", "$5", "$0", "up", "bitcoin"}

Messages == UNION {[1..n -> Words] : n \in 0..MaxWords}

\* String.prototype.toLowerCase, lexeme by lexeme
toLowerCase(message) == [i \in 1..Len(message) |-> IF message[i] = "BUY" THEN "buy" ELSE message[i]]

RECURSIVE trimStart(_)
trimStart(message) ==
    IF message # << >> /\ Head(message) = Blank THEN trimStart(Tail(message)) ELSE message

RECURSIVE trimEnd(_)
trimEnd(message) ==
    IF message # << >> /\ message[Len(message)] = Blank
    THEN trimEnd(SubSeq(message, 1, Len(message) - 1))
    ELSE message

\* String.prototype.trim
trim(message) == trimEnd(trimStart(message))

\* RegExp.prototype.test for a pattern of whole-word alternatives
test(pattern, message) == \E i \in 1..Len(message) : message[i] \in pattern

\* the same with the i flag
testIgnoreCase(pattern, message) == test(pattern, toLowerCase(message))

WRITE_ACTION_VERB_PATTERN == {"bet", "place", "buy", "sell", "trade"}

\* $ and digits; digits and dollars, usd or bucks
MONEY_REFERENCE_PATTERN == {"$5", "$0"}

QUESTION_WORDS == {"what", "why", "how", "when", "where", "who", "which", "can", "could", "would", "should", "is", "are", "do", "does", "did"}

\* /\?|^\s*(what|why|...)\b/i : a question mark anywhere, or a question word
\* in front, after blanks at most
QUESTION_PATTERN(message) ==
    \/ test({"?"}, message)
    \/ LET rest == trimStart(message)
       IN  rest # << >> /\ Head(toLowerCase(rest)) \in QUESTION_WORDS

\* the one-word alternatives; the others (trade history, connect account,
\* linked wallet, recent trades, past N trades, last N trades) need words
\* that Words does not hold
ACCOUNT_WRITE_PATTERN == {"balance", "portfolio", "position", "positions", "history", "verify", "disconnect", "status"}

\* classifyMessageIntent that lets a question marker win over account words
classifyMessageIntent_QuestionFirst(message) ==
    LET normalized == trim(message)
    IN  IF Len(normalized) = 0 THEN "READ"
        ELSE IF QUESTION_PATTERN(normalized) THEN "READ"
        ELSE IF testIgnoreCase(ACCOUNT_WRITE_PATTERN, normalized) THEN "WRITE"
        ELSE IF testIgnoreCase(WRITE_ACTION_VERB_PATTERN, normalized) /\ testIgnoreCase(MONEY_REFERENCE_PATTERN, normalized) THEN "WRITE"
        ELSE "READ"

classifyMessageIntent(message) ==
    LET normalized == trim(message)
        hasWriteActionVerb == testIgnoreCase(WRITE_ACTION_VERB_PATTERN, normalized)
        hasMonetaryReference == testIgnoreCase(MONEY_REFERENCE_PATTERN, normalized)
    IN  IF Len(normalized) = 0 THEN "READ"
        ELSE IF testIgnoreCase(ACCOUNT_WRITE_PATTERN, normalized) THEN "WRITE"
        ELSE IF QUESTION_PATTERN(normalized) THEN "READ"
        ELSE IF hasWriteActionVerb /\ hasMonetaryReference THEN "WRITE"
        ELSE "READ"

(***************************************************************************)
(* discord/DiscordMessageRouter.ts                                         *)
(***************************************************************************)
Intents == [marketId : MarketIds, outcome : Outcomes, action : Actions, amountCents : Amounts]

NoIntent == [marketId |-> NULL, outcome |-> NULL, action |-> NULL, amountCents |-> 0]

\* pc: "idle" (no call), "denied" (awaiting getRemainingToday after a failed
\* canSpend), "resolve" (awaiting the market and the validation context)
IdleTask == [pc |-> "idle", user |-> NULL, intent |-> NoIntent]

NoResult == [op |-> "none", user |-> NULL, id |-> 0, type |-> NULL, code |-> NULL, amountDollars |-> NULL]

TextResult(u, c) == [op |-> "route", user |-> NULL, id |-> 0, type |-> "text", code |-> c, amountDollars |-> NULL]

Pad2(n) == IF n < 10 THEN "0" \o ToString(n) ELSE ToString(n)

\* (amountCents / 100).toFixed(2) of a non-negative integer number of cents
toFixed2(amountCents) == ToString(amountCents \div 100) \o "." \o Pad2(amountCents % 100)

ConfirmResult(u, confirmId, intent) == [op |-> "route", user |-> u, id |-> confirmId, type |-> "confirm", code |-> intent.action, amountDollars |-> toFixed2(intent.amountCents)]

ExecuteResult(confirmId, c) == [op |-> "execute", user |-> NULL, id |-> confirmId, type |-> "text", code |-> c, amountDollars |-> NULL]

CancelResult(confirmId, b) == [op |-> "cancel", user |-> NULL, id |-> confirmId, type |-> "bool", code |-> b, amountDollars |-> NULL]

NoValidation == [op |-> "none"]

NoClassification == [op |-> "none"]

\* pc: "start" (no call yet), "parse" (awaiting parseIntent), "done";
\* parsed: what parseIntent returned ("failure": null)
NoRoute == [pc |-> "start", message |-> << >>, user |-> NULL, parsed |-> NULL]

\* n: the calls made so far; key: the Redis key of a recordSpend that still
\* awaits its expire
NoObservation == [op |-> "none", n |-> 0, key |-> NULL, mem |-> NULL, redis |-> NULL]

NoParseCall == [op |-> "none", userId |-> NULL, blankMessage |-> FALSE, hasGeminiKeys |-> FALSE, content |-> NULL, result |-> NULL]

\* the configured Gemini keys, in the order of geminiKeyStates
GeminiKeys == 1..NumGeminiKeys

NoGeminiCall == [pc |-> "idle", key |-> 0, triedKeys |-> {}, requests |-> 0, result |-> "none", untried |-> {}]

NoSpendResult == [op |-> "none", user |-> NULL, amountCents |-> 0, day |-> 0, value |-> FALSE]

\* Map.delete
MapDelete(m, k) == [x \in DOMAIN m \ {k} |-> m[x]]

\* Map.set
MapSet(m, k, v) == [x \in DOMAIN m \cup {k} |-> IF x = k THEN v ELSE m[x]]

InitCommon ==
    /\ nowMs = StartMs
    /\ spendLedger = << >>
    /\ pendingTrades = << >>
    /\ nextConfirmId = 1
    /\ tasks = [t \in TaskIds |-> IdleTask]
    /\ executions = << >>
    /\ gatewayCalls = [id \in ConfirmIds |-> 0]
    /\ cancelled = [id \in ConfirmIds |-> 0]
    /\ trades = << >>
    /\ lastResult = NoResult
    /\ redisStore = << >>
    /\ spendCalls = << >>
    /\ granted = << >>
    /\ spendResult = NoSpendResult
    /\ built = << >>
    /\ validated = NoValidation
    /\ classified = NoClassification
    /\ routed = NoRoute
    /\ observed = NoObservation
    /\ userCooldowns = << >>
    /\ gatewayLog = [u \in Users |-> << >>]
    /\ sessionCalls = 0
    /\ parseCall = NoParseCall
    /\ traderCalls = << >>
    /\ processedMessages = << >>
    /\ routedTimes = << >>
    /\ nextMessageId = 1
    /\ byDiscordUserId = << >>
    /\ ownerByNonce = << >>
    /\ nextNonce = 1
    /\ verifyCalls = << >>
    /\ verifyOk = << >>
    /\ geminiKeyStates = [k \in GeminiKeys |-> 0]
    /\ geminiCall = NoGeminiCall
    /\ geminiCalls = 0

\* the bot runs without REDIS_URL: getRedis() is null and the ledger is the
\* in-memory map
Init == InitCommon /\ redisAvailable = FALSE /\ sessions = << >>

\* handleWriteGate that applies the daily-limit gate to every action
handleWriteGate_AnyAction(t, u, intent) ==
    /\ tasks[t].pc = "idle"
    /\ \A t2 \in TaskIds : t2 < t => tasks[t2].pc # "idle"
    /\ LET gated == ~isOwnerExempt(u)
       IN  /\ spendLedger' = IF gated THEN memGetSpentLedger(spendLedger, u, nowMs) ELSE spendLedger
           /\ tasks' = [tasks EXCEPT ![t] =
                          IF gated /\ ~canSpend(spendLedger, u, intent.amountCents, nowMs)
                          THEN [pc |-> "denied", user |-> u, intent |-> NoIntent]
                          ELSE [pc |-> "resolve", user |-> u, intent |-> intent]]
    /\ lastResult' = NoResult
    /\ UNCHANGED <<nowMs, pendingTrades, nextConfirmId, executions, gatewayCalls, cancelled, trades>>
    /\ UNCHANGED <<spendVars, callVars, authVars, parseVars, directVars>>

\* routeMessage -> handleWrite with a place_bet intent (from parseIntent or
\* from the deterministic fallback), up to the await of the daily-limit gate
\* `canSpend`.  The part of the call before the gate reads no shared state.
handleWriteGate(t, u, intent) ==
    /\ tasks[t].pc = "idle"
    /\ \A t2 \in TaskIds : t2 < t => tasks[t2].pc # "idle"
    /\ LET gated == intent.action = "BUY" /\ ~isOwnerExempt(u)
       IN  /\ spendLedger' = IF gated THEN memGetSpentLedger(spendLedger, u, nowMs) ELSE spendLedger
           /\ tasks' = [tasks EXCEPT ![t] =
                          IF gated /\ ~canSpend(spendLedger, u, intent.amountCents, nowMs)
                          THEN [pc |-> "denied", user |-> u, intent |-> NoIntent]
                          ELSE [pc |-> "resolve", user |-> u, intent |-> intent]]
    /\ lastResult' = NoResult
    /\ UNCHANGED <<nowMs, pendingTrades, nextConfirmId, executions, gatewayCalls, cancelled, trades>>
    /\ UNCHANGED <<spendVars, callVars, authVars, parseVars, directVars>>

\* the gate failed: getRemainingToday, then the "Daily limit reached" reply
handleWriteDenied(t) ==
    /\ tasks[t].pc = "denied"
    /\ spendLedger' = memGetSpentLedger(spendLedger, tasks[t].user, nowMs)
    /\ tasks' = [tasks EXCEPT ![t] = IdleTask]
    /\ lastResult' = TextResult(tasks[t].user, "DAILY_LIMIT_REACHED")
    /\ UNCHANGED <<nowMs, pendingTrades, nextConfirmId, executions, gatewayCalls, cancelled, trades>>
    /\ UNCHANGED <<spendVars, callVars, routed, botVars, authVars, parseVars, directVars>>

\* storePendingTrade: the closure keeps tradeRequest, discordUserId,
\* amountCentsNum and actionForSpend
storePendingTrade(pending, confirmId, req, t) ==
    MapSet(pending, confirmId, [req |-> req, expiresAtMs |-> t + PENDING_TTL_MS])

\* handleWrite that builds and registers the request whatever validation says
handleWriteValidate_Unvalidated(t, status, account) ==
    /\ tasks[t].pc = "resolve"
    /\ LET u == tasks[t].user
           intent == tasks[t].intent
           req == buildTradeRequest(intent, [discordUserId |-> u, polymarketAccountId |-> account, marketId |-> intent.marketId, nowMs |-> nowMs])
       IN  /\ nextConfirmId <= MaxConfirm
           /\ pendingTrades' = storePendingTrade(pendingTrades, nextConfirmId, req, nowMs)
           /\ nextConfirmId' = nextConfirmId + 1
           /\ lastResult' = ConfirmResult(u, nextConfirmId, intent)
    /\ tasks' = [tasks EXCEPT ![t] = IdleTask]
    /\ UNCHANGED <<nowMs, spendLedger, executions, gatewayCalls, cancelled, trades>>
    /\ UNCHANGED <<spendVars, callVars, routed, botVars, authVars, parseVars, directVars>>

\* handleWrite after the market and the validation context arrived:
\* validateAgentOutput, buildTradeRequest, storePendingTrade, reply.
\* status is what the market lookup gave (NULL: no such market), account the
\* resolved account id (NULL: none)
handleWriteValidate(t, status, account) ==
    /\ tasks[t].pc = "resolve"
    /\ LET u == tasks[t].user
           intent == tasks[t].intent
           context == buildValidationContext(account, [m \in MarketIds |-> status])
           validation == validateAgentOutput(intent, context)
           req == buildTradeRequest(intent, [discordUserId |-> u, polymarketAccountId |-> account, marketId |-> intent.marketId, nowMs |-> nowMs])
       IN  IF ~validation.ok
           THEN /\ lastResult' = TextResult(u, validation.code)
                /\ UNCHANGED <<pendingTrades, nextConfirmId>>
           ELSE /\ nextConfirmId <= MaxConfirm
                /\ pendingTrades' = storePendingTrade(pendingTrades, nextConfirmId, req, nowMs)
                /\ nextConfirmId' = nextConfirmId + 1
                /\ lastResult' = ConfirmResult(u, nextConfirmId, intent)
    /\ tasks' = [tasks EXCEPT ![t] = IdleTask]
    /\ UNCHANGED <<nowMs, spendLedger, executions, gatewayCalls, cancelled, trades>>
    /\ UNCHANGED <<spendVars, callVars, routed, botVars, authVars, parseVars, directVars>>

(***************************************************************************)
(* Execution boundary: UserAccountTrader.placeTrade over                   *)
(* ClobPolymarketExecutionGateway.executeTradeForAccount                   *)
(***************************************************************************)
TradeErrorCodes == {"LIMIT_EXCEEDED", "INVALID_MARKET", "MARKET_NOT_ACTIVE", "INVALID_AMOUNT", "RATE_LIMITED", "ABUSE_BLOCKED", "UPSTREAM_UNAVAILABLE", "INTERNAL_ERROR"}

\* executeTradeForAccount without the $5 minimum
executeTradeForAccount_NoMinimum(params) == {"OK", "UPSTREAM_UNAVAILABLE", "NO_CODE"}

\* what executeTradeForAccount can do with params: "OK" (order posted and
\* filled) or a thrown error, named by its code ("NO_CODE": a plain Error).
\* An amount under the $5 minimum throws before the order is posted.
executeTradeForAccount(params) ==
    IF params.amountCents < CLOB_MIN_ORDER_CENTS
    THEN {"INVALID_AMOUNT", "NO_CODE"}
    ELSE {"OK", "UPSTREAM_UNAVAILABLE", "NO_CODE"}

\* a mapping that hands the thrown code on as it is
mapExecutionErrorToTradeErrorCode_PassThrough(thrown) == thrown

mapExecutionErrorToTradeErrorCode(thrown) ==
    IF thrown \in {"RATE_LIMITED", "UPSTREAM_UNAVAILABLE", "INVALID_MARKET", "MARKET_NOT_ACTIVE", "INVALID_AMOUNT", "ABUSE_BLOCKED", "LIMIT_EXCEEDED"}
    THEN thrown
    ELSE "INTERNAL_ERROR"

\* the TradeResult of placeTrade for a gateway outcome
placeTrade(outcome) ==
    IF outcome = "OK" THEN [ok |-> TRUE, errorCode |-> NULL]
    ELSE [ok |-> FALSE, errorCode |-> mapExecutionErrorToTradeErrorCode(outcome)]

\* the exchange fills one more order under this idempotency key
FillOrder(log, key) == MapSet(log, key, IF key \in DOMAIN log THEN log[key] + 1 ELSE 1)

(***************************************************************************)
(* Router: confirmation registry                                           *)
(***************************************************************************)
\* executePendingTrade that leaves the entry in the registry
executePendingTrade_NoDelete(confirmId) ==
    /\ confirmId < nextConfirmId
    /\ IF confirmId \notin DOMAIN pendingTrades
       THEN UNCHANGED <<executions, gatewayCalls, lastResult>>
       ELSE LET pending == pendingTrades[confirmId]
            IN  IF pending.expiresAtMs < nowMs
                THEN /\ lastResult' = ExecuteResult(confirmId, "NULL_EXPIRED")
                     /\ UNCHANGED <<executions, gatewayCalls>>
                ELSE /\ executions' = MapSet(executions, confirmId, pending.req)
                     /\ gatewayCalls' = [gatewayCalls EXCEPT ![confirmId] = @ + 1]
                     /\ lastResult' = NoResult
    /\ UNCHANGED <<nowMs, spendLedger, pendingTrades, nextConfirmId, tasks, cancelled, trades>>
    /\ UNCHANGED <<spendVars, callVars, routed, authVars, parseVars, directVars>>

\* executePendingTrade that trusts the purge timer and checks no expiry
executePendingTrade_NoExpiryCheck(confirmId) ==
    /\ confirmId < nextConfirmId
    /\ IF confirmId \notin DOMAIN pendingTrades
       THEN UNCHANGED <<pendingTrades, executions, gatewayCalls, lastResult>>
       ELSE /\ pendingTrades' = MapDelete(pendingTrades, confirmId)
            /\ executions' = MapSet(executions, confirmId, pendingTrades[confirmId].req)
            /\ gatewayCalls' = [gatewayCalls EXCEPT ![confirmId] = @ + 1]
            /\ lastResult' = NoResult
    /\ UNCHANGED <<nowMs, spendLedger, nextConfirmId, tasks, cancelled, trades>>
    /\ UNCHANGED <<spendVars, callVars, routed, authVars, parseVars, directVars>>

\* executePendingTrade that runs the daily-limit gate again before the gateway
executePendingTrade_Recheck(confirmId) ==
    /\ confirmId < nextConfirmId
    /\ IF confirmId \notin DOMAIN pendingTrades
       THEN UNCHANGED <<pendingTrades, executions, gatewayCalls, lastResult>>
       ELSE LET pending == pendingTrades[confirmId]
                refused == /\ pending.req.action = "BUY"
                           /\ ~isOwnerExempt(pending.req.discordUserId)
                           /\ ~canSpend(spendLedger, pending.req.discordUserId, pending.req.amountCents, nowMs)
            IN  /\ pendingTrades' = MapDelete(pendingTrades, confirmId)
                /\ IF pending.expiresAtMs < nowMs
                   THEN /\ lastResult' = ExecuteResult(confirmId, "NULL_EXPIRED")
                        /\ UNCHANGED <<executions, gatewayCalls>>
                   ELSE IF refused
                   THEN /\ lastResult' = ExecuteResult(confirmId, "LIMIT_EXCEEDED")
                        /\ UNCHANGED <<executions, gatewayCalls>>
                   ELSE /\ executions' = MapSet(executions, confirmId, pending.req)
                        /\ gatewayCalls' = [gatewayCalls EXCEPT ![confirmId] = @ + 1]
                        /\ lastResult' = NoResult
    /\ UNCHANGED <<nowMs, spendLedger, nextConfirmId, tasks, cancelled, trades>>
    /\ UNCHANGED <<spendVars, callVars, routed, authVars, parseVars, directVars>>

\* executePendingTrade(confirmId) up to the first await inside
\* pending.execute(): get, delete, expiry check, then placeTrade calls the
\* gateway.  The transport calls it (and cancelPendingTrade) with ids that
\* routeMessage handed out.  A call on an id that is not registered returns
\* null and changes nothing.
executePendingTrade(confirmId) ==
    /\ confirmId < nextConfirmId
    /\ IF confirmId \notin DOMAIN pendingTrades
       THEN UNCHANGED <<pendingTrades, executions, gatewayCalls, lastResult>>
       ELSE LET pending == pendingTrades[confirmId]
            IN  /\ pendingTrades' = MapDelete(pendingTrades, confirmId)
                /\ IF pending.expiresAtMs < nowMs
                   THEN /\ lastResult' = ExecuteResult(confirmId, "NULL_EXPIRED")
                        /\ UNCHANGED <<executions, gatewayCalls>>
                   ELSE /\ executions' = MapSet(executions, confirmId, pending.req)
                        /\ gatewayCalls' = [gatewayCalls EXCEPT ![confirmId] = @ + 1]
                        /\ lastResult' = NoResult
    /\ UNCHANGED <<nowMs, spendLedger, nextConfirmId, tasks, cancelled, trades>>
    /\ UNCHANGED <<spendVars, callVars, routed, authVars, parseVars, directVars>>

\* execute closure that records the spend of every BUY, filled or not
executeClosureResume_RecordAlways(confirmId, outcome) ==
    /\ confirmId \in DOMAIN executions
    /\ outcome \in executeTradeForAccount(executions[confirmId])
    /\ LET req == executions[confirmId]
           tradeResult == placeTrade(outcome)
       IN  /\ spendLedger' = IF req.action = "BUY"
                             THEN recordSpend(spendLedger, req.discordUserId, req.amountCents, nowMs)
                             ELSE spendLedger
           /\ trades' = IF outcome = "OK" THEN FillOrder(trades, req.idempotencyKey) ELSE trades
           /\ lastResult' = ExecuteResult(confirmId, IF tradeResult.ok THEN "OK" ELSE tradeResult.errorCode)
    /\ executions' = MapDelete(executions, confirmId)
    /\ UNCHANGED <<nowMs, pendingTrades, nextConfirmId, tasks, gatewayCalls, cancelled>>
    /\ UNCHANGED <<spendVars, callVars, routed, botVars, authVars, parseVars, directVars>>

\* the execute closure resumes after `await placeTrade`: recordSpend for a
\* successful BUY, then the result text is returned by executePendingTrade
executeClosureResume(confirmId, outcome) ==
    /\ confirmId \in DOMAIN executions
    /\ outcome \in executeTradeForAccount(executions[confirmId])
    /\ LET req == executions[confirmId]
           tradeResult == placeTrade(outcome)
       IN  /\ spendLedger' = IF tradeResult.ok /\ req.action = "BUY"
                             THEN recordSpend(spendLedger, req.discordUserId, req.amountCents, nowMs)
                             ELSE spendLedger
           /\ trades' = IF outcome = "OK" THEN FillOrder(trades, req.idempotencyKey) ELSE trades
           /\ lastResult' = ExecuteResult(confirmId, IF tradeResult.ok THEN "OK" ELSE tradeResult.errorCode)
    /\ executions' = MapDelete(executions, confirmId)
    /\ UNCHANGED <<nowMs, pendingTrades, nextConfirmId, tasks, gatewayCalls, cancelled>>
    /\ UNCHANGED <<spendVars, callVars, routed, botVars, authVars, parseVars, directVars>>

\* cancelPendingTrade that answers true and leaves the entry in the registry
cancelPendingTrade_NoDelete(confirmId) ==
    /\ confirmId < nextConfirmId
    /\ IF confirmId \notin DOMAIN pendingTrades
       THEN UNCHANGED <<cancelled, lastResult>>
       ELSE /\ cancelled' = [cancelled EXCEPT ![confirmId] = @ + 1]
            /\ lastResult' = CancelResult(confirmId, "true")
    /\ UNCHANGED <<nowMs, spendLedger, pendingTrades, nextConfirmId, tasks, executions, gatewayCalls, trades>>
    /\ UNCHANGED <<spendVars, callVars, routed, botVars, authVars, parseVars, directVars>>

\* cancelPendingTrade that answers true for every id
cancelPendingTrade_AlwaysTrue(confirmId) ==
    /\ confirmId < nextConfirmId
    /\ pendingTrades' = MapDelete(pendingTrades, confirmId)
    /\ cancelled' = [cancelled EXCEPT ![confirmId] = @ + 1]
    /\ lastResult' = CancelResult(confirmId, "true")
    /\ UNCHANGED <<nowMs, spendLedger, nextConfirmId, tasks, executions, gatewayCalls, trades>>
    /\ UNCHANGED <<spendVars, callVars, routed, botVars, authVars, parseVars, directVars>>

\* cancelPendingTrade(confirmId): get, delete, true; false (and no change)
\* for an id that is not registered
cancelPendingTrade(confirmId) ==
    /\ confirmId < nextConfirmId
    /\ IF confirmId \notin DOMAIN pendingTrades
       THEN UNCHANGED <<pendingTrades, cancelled, lastResult>>
       ELSE /\ pendingTrades' = MapDelete(pendingTrades, confirmId)
            /\ cancelled' = [cancelled EXCEPT ![confirmId] = @ + 1]
            /\ lastResult' = CancelResult(confirmId, "true")
    /\ UNCHANGED <<nowMs, spendLedger, nextConfirmId, tasks, executions, gatewayCalls, trades>>
    /\ UNCHANGED <<spendVars, callVars, routed, botVars, authVars, parseVars, directVars>>

\* a sweep that removes nothing
purgeExpired_KeepsAll ==
    /\ pendingTrades' = pendingTrades
    /\ lastResult' = NoResult
    /\ UNCHANGED <<nowMs, spendLedger, nextConfirmId, tasks, executions, gatewayCalls, cancelled, trades>>
    /\ UNCHANGED <<spendVars, callVars, routed, botVars, authVars, parseVars, directVars>>

\* a sweep that also removes the entries that expire at this very moment
purgeExpired_AtExpiry ==
    /\ pendingTrades' = [id \in {i \in DOMAIN pendingTrades : nowMs < pendingTrades[i].expiresAtMs} |-> pendingTrades[id]]
    /\ lastResult' = NoResult
    /\ UNCHANGED <<nowMs, spendLedger, nextConfirmId, tasks, executions, gatewayCalls, cancelled, trades>>
    /\ UNCHANGED <<spendVars, callVars, routed, botVars, authVars, parseVars, directVars>>

\* the constructor's setInterval callback (every 2 minutes, at a phase that
\* depends on when the router was constructed)
purgeExpired ==
    /\ pendingTrades' = [id \in {i \in DOMAIN pendingTrades : ~(pendingTrades[i].expiresAtMs < nowMs)} |-> pendingTrades[id]]
    /\ lastResult' = NoResult
    /\ UNCHANGED <<nowMs, spendLedger, nextConfirmId, tasks, executions, gatewayCalls, cancelled, trades>>
    /\ UNCHANGED <<spendVars, callVars, routed, botVars, authVars, parseVars, directVars>>

\* the clock moves on
advanceClock ==
    /\ nowMs + CLOCK_STEP_MS <= StartMs + MaxTicks * CLOCK_STEP_MS
    /\ nowMs' = nowMs + CLOCK_STEP_MS
    /\ lastResult' = NoResult
    /\ UNCHANGED <<spendLedger, pendingTrades, nextConfirmId, tasks, executions, gatewayCalls, cancelled, trades>>
    /\ UNCHANGED <<spendVars, callVars, routed, botVars, authVars, parseVars, directVars>>

GatewayOutcomes == {"OK", "INVALID_AMOUNT", "UPSTREAM_UNAVAILABLE", "NO_CODE"}

Accounts == {LEADER_WALLET, NULL}

Next ==
    \/ \E t \in TaskIds, u \in Users, intent \in Intents : handleWriteGate(t, u, intent) /\ UNCHANGED <<routed, botVars, authVars, parseVars, directVars>>
    \/ \E t \in TaskIds : handleWriteDenied(t)
    \/ \E t \in TaskIds, status \in MarketStatuses \cup {NULL}, account \in Accounts : handleWriteValidate(t, status, account)
    \/ \E confirmId \in ConfirmIds : executePendingTrade(confirmId) /\ UNCHANGED botVars
    \/ \E confirmId \in ConfirmIds, outcome \in GatewayOutcomes : executeClosureResume(confirmId, outcome)
    \/ \E confirmId \in ConfirmIds : cancelPendingTrade(confirmId)
    \/ purgeExpired
    \/ advanceClock

Spec == Init /\ [][Next]_vars

\* a routeMessage call that starts while no other call is in flight
routeMessageAlone(u, intent) ==
    /\ \A t \in TaskIds : tasks[t].pc = "idle"
    /\ handleWriteGate(1, u, intent)
    /\ UNCHANGED <<routed, botVars, authVars, parseVars, directVars>>

\* the same program, its messages handled one after the other
NextSeq ==
    \/ \E u \in Users, intent \in Intents : routeMessageAlone(u, intent)
    \/ \E t \in TaskIds : handleWriteDenied(t)
    \/ \E t \in TaskIds, status \in MarketStatuses \cup {NULL}, account \in Accounts : handleWriteValidate(t, status, account)
    \/ \E confirmId \in ConfirmIds : executePendingTrade(confirmId) /\ UNCHANGED botVars
    \/ \E confirmId \in ConfirmIds, outcome \in GatewayOutcomes : executeClosureResume(confirmId, outcome)
    \/ \E confirmId \in ConfirmIds : cancelPendingTrade(confirmId)
    \/ purgeExpired
    \/ advanceClock

SpecSeq == Init /\ [][NextSeq]_vars

TypeOK ==
    /\ nowMs \in Nat
    /\ nextConfirmId \in 1..(MaxConfirm + 1)
    /\ DOMAIN pendingTrades \subseteq ConfirmIds
    /\ DOMAIN executions \subseteq ConfirmIds
    /\ \A t \in TaskIds : tasks[t].pc \in {"idle", "denied", "resolve"}

(***************************************************************************)
(* storage/limits.ts: trySpend called directly, by concurrent callers, with *)
(* or without Redis                                                        *)
(***************************************************************************)
SpendAmounts == {250, 600}

SpendCallIds == 1..MaxSpendCalls

SpendResult(u, amountCents, day, value) == [op |-> "trySpend", user |-> u, amountCents |-> amountCents, day |-> day, value |-> value]

GrantedOn(u, d) == IF <<u, d>> \in DOMAIN granted THEN granted[<<u, d>>] ELSE 0

Grant(u, d, amountCents) == MapSet(granted, <<u, d>>, GrantedOn(u, d) + amountCents)

\* trySpend without Redis (l.145-149): one synchronous run
trySpendMem(u, amountCents) ==
    /\ ~redisAvailable
    /\ IF memGetSpent(spendLedger, u, nowMs) + amountCents > DAILY_LIMIT_CENTS
       THEN /\ spendLedger' = memGetSpentLedger(spendLedger, u, nowMs)
            /\ spendResult' = SpendResult(u, amountCents, utcDateKey(nowMs), FALSE)
            /\ UNCHANGED granted
       ELSE /\ spendLedger' = memRecordSpend(memGetSpentLedger(spendLedger, u, nowMs), u, amountCents, nowMs)
            /\ spendResult' = SpendResult(u, amountCents, utcDateKey(nowMs), TRUE)
            /\ granted' = Grant(u, utcDateKey(nowMs), amountCents)
    /\ UNCHANGED <<nowMs, redisAvailable, redisStore, spendCalls, callVars>>
    /\ UNCHANGED <<routerVars, routed, botVars, authVars, parseVars, directVars>>

\* trySpend with Redis, up to `await redis.eval(...)`: the key is computed
\* by the caller, from its clock
trySpendCall(c, u, amountCents) ==
    /\ redisAvailable
    /\ c \notin DOMAIN spendCalls
    /\ \A c2 \in SpendCallIds : c2 < c => c2 \in DOMAIN spendCalls
    /\ spendCalls' = MapSet(spendCalls, c, [user |-> u, amountCents |-> amountCents, key |-> redisKey(u, nowMs), calledAtMs |-> nowMs])
    /\ spendResult' = NoSpendResult
    /\ UNCHANGED <<nowMs, spendLedger, redisAvailable, redisStore, granted, callVars>>
    /\ UNCHANGED <<routerVars, routed, botVars, authVars, parseVars, directVars>>

\* the server runs the script of call c and trySpend returns `result === 1`
trySpendEval(c) ==
    /\ c \in DOMAIN spendCalls
    /\ LET call == spendCalls[c]
           day == utcDateKey(call.calledAtMs)
           run == TRY_SPEND_LUA(redisStore, call.key, call.amountCents, DAILY_LIMIT_CENTS, REDIS_TTL_SECONDS, nowMs)
       IN  /\ redisStore' = run.store
           /\ spendResult' = SpendResult(call.user, call.amountCents, day, run.result = 1)
           /\ granted' = IF run.result = 1 THEN Grant(call.user, day, call.amountCents) ELSE granted
    /\ spendCalls' = MapDelete(spendCalls, c)
    /\ UNCHANGED <<nowMs, spendLedger, redisAvailable, callVars>>
    /\ UNCHANGED <<routerVars, routed, botVars, authVars, parseVars, directVars>>

\* a day passes.  An eval is in flight for far less than the 48 hours the
\* keys live
advanceDay ==
    /\ nowMs + DAY_MS <= StartMs + MaxDays * DAY_MS
    /\ \A c \in DOMAIN spendCalls : nowMs + DAY_MS - spendCalls[c].calledAtMs < REDIS_TTL_SECONDS * 1000
    /\ nowMs' = nowMs + DAY_MS
    /\ spendResult' = NoSpendResult
    /\ UNCHANGED <<spendLedger, redisAvailable, redisStore, spendCalls, granted, callVars>>
    /\ UNCHANGED <<routerVars, routed, botVars, authVars, parseVars, directVars>>

InitLedger == InitCommon /\ redisAvailable \in BOOLEAN /\ sessions = << >>

NextLedger ==
    \/ \E u \in Users, amountCents \in SpendAmounts : trySpendMem(u, amountCents)
    \/ \E c \in SpendCallIds, u \in Users, amountCents \in SpendAmounts : trySpendCall(c, u, amountCents)
    \/ \E c \in SpendCallIds : trySpendEval(c)
    \/ advanceDay

SpecLedger == InitLedger /\ [][NextLedger]_vars

\* the same calls with a clock that keeps moving.  limits.ts sets up no
\* timer: evictStaleEntries runs inside memGetSpent only, so nothing but the
\* clock is scheduled
SpecLedgerLive == InitLedger /\ [][NextLedger]_vars /\ WF_vars(advanceDay)

(***************************************************************************)
(* The bot over several UTC days: messages handled one after the other,    *)
(* in-memory ledger                                                        *)
(***************************************************************************)
NextDays ==
    \/ \E u \in Users, intent \in Intents : routeMessageAlone(u, intent)
    \/ handleWriteDenied(1)
    \/ \E status \in MarketStatuses \cup {NULL}, account \in Accounts : handleWriteValidate(1, status, account)
    \/ \E confirmId \in ConfirmIds : executePendingTrade(confirmId) /\ UNCHANGED botVars
    \/ \E confirmId \in ConfirmIds, outcome \in GatewayOutcomes : executeClosureResume(confirmId, outcome)
    \/ \E confirmId \in ConfirmIds : cancelPendingTrade(confirmId)
    \/ purgeExpired
    \/ advanceClock
    \/ advanceDay

SpecDays == Init /\ [][NextDays]_vars

(***************************************************************************)
(* backend/buildTradeRequest.ts called directly                            *)
(***************************************************************************)
\* call times around the end of one idempotency window
BuildTimes == {StartMs, StartMs + 1, StartMs + IDEMPOTENCY_WINDOW_MS - 1, StartMs + IDEMPOTENCY_WINDOW_MS}

callBuildTradeRequest(agentOutput, context) ==
    /\ Len(built) < MaxBuilt
    /\ built' = Append(built, buildTradeRequest(agentOutput, context))
    /\ UNCHANGED <<nowMs, spendLedger, spendVars, validated, classified, observed>>
    /\ UNCHANGED <<routerVars, routed, botVars, authVars, parseVars, directVars>>

NextKey ==
    \E agentOutput \in Intents, u \in Users, t \in BuildTimes :
        callBuildTradeRequest(agentOutput, [discordUserId |-> u, polymarketAccountId |-> LEADER_WALLET, marketId |-> agentOutput.marketId, nowMs |-> t])

SpecKey == Init /\ [][NextKey]_vars

(***************************************************************************)
(* backend/validateAgentOutput.ts called directly                          *)
(***************************************************************************)
\* amounts around zero, the $5 minimum order and the limits, each as a whole
\* number of cents and with half a cent more
ValidateAmounts == {-100, 0, 1, 499, 500, 501, 1000}

ValidateTenths == {0, 5}

RemainingDailyLimits == {0, 300, 500, 1000}

SpentThisHour == {0, 100, 500}

ValidateIntents == [marketId : MarketIds, outcome : Outcomes, action : Actions, amountCents : ValidateAmounts, amountTenths : ValidateTenths]

ValidationContexts == [polymarketAccountId : Accounts, remainingDailyLimitCents : RemainingDailyLimits, spentThisHourCents : SpentThisHour, marketLookup : [MarketIds -> MarketStatuses \cup {NULL}]]

callValidateAgentOutput(agentOutput, context) ==
    /\ validated.op = "none"
    /\ validated' = [op |-> "validate", agentOutput |-> agentOutput, context |-> context, result |-> validateAgentOutput(agentOutput, context)]
    /\ UNCHANGED <<nowMs, spendLedger, spendVars, built, classified, observed>>
    /\ UNCHANGED <<routerVars, routed, botVars, authVars, parseVars, directVars>>

NextValidate ==
    \E agentOutput \in ValidateIntents, context \in ValidationContexts : callValidateAgentOutput(agentOutput, context)

SpecValidate == Init /\ [][NextValidate]_vars

(***************************************************************************)
(* discord/classifyMessageIntent.ts called directly                        *)
(***************************************************************************)
callClassifyMessageIntent(message) ==
    /\ classified.op = "none"
    /\ classified' = [op |-> "classify", message |-> message, result |-> classifyMessageIntent(message)]
    /\ UNCHANGED <<nowMs, spendLedger, spendVars, built, validated, observed>>
    /\ UNCHANGED <<routerVars, routed, botVars, authVars, parseVars, directVars>>

NextClassify == classified.op = "none" /\ \E message \in Messages : callClassifyMessageIntent(message)

SpecClassify == Init /\ [][NextClassify]_vars

(***************************************************************************)
(* discord/DiscordMessageRouter.ts: one routeMessage call followed from    *)
(* the text of its message, through the classifier, the intent parser and  *)
(* the deterministic fallback                                              *)
(***************************************************************************)
accountScopedPattern == {"balance", "portfolio", "position", "positions", "history", "verify", "disconnect", "status"}

hasTradeVerbPattern == {"bet", "place", "buy", "sell", "exit", "close", "trade", "market"}

isDeterministicWriteMessage(message) ==
    LET normalized == toLowerCase(trim(message))
        hasTradeVerb == test(hasTradeVerbPattern, normalized)
        hasAmount == test(MONEY_REFERENCE_PATTERN, normalized)
    IN  IF Len(normalized) = 0 THEN FALSE
        ELSE IF test(accountScopedPattern, normalized) THEN TRUE
        ELSE hasTradeVerb /\ hasAmount

\* Number(amountMatch[1]) of the first money lexeme of the message
amountDollars(normalized) ==
    LET first == CHOOSE i \in 1..Len(normalized) :
                     /\ normalized[i] \in MONEY_REFERENCE_PATTERN
                     /\ \A j \in 1..(i - 1) : normalized[j] \notin MONEY_REFERENCE_PATTERN
    IN  IF normalized[first] = "$5" THEN 5 ELSE 0

\* routeMessage up to its first await: the dispatch on the text.  The read
\* path awaits the read service and the explainer and touches no state.
routeMessage(message, discordUserId) ==
    /\ routed.pc = "start"
    /\ IF isDeterministicWriteMessage(message)
       THEN /\ routed' = [pc |-> "parse", message |-> message, user |-> discordUserId, parsed |-> NULL]
            /\ UNCHANGED lastResult
       ELSE IF classifyMessageIntent(message) = "READ"
       THEN /\ routed' = [pc |-> "done", message |-> message, user |-> discordUserId, parsed |-> NULL]
            /\ lastResult' = TextResult(discordUserId, "READ")
       ELSE /\ routed' = [pc |-> "parse", message |-> message, user |-> discordUserId, parsed |-> NULL]
            /\ UNCHANGED lastResult
    /\ UNCHANGED <<nowMs, spendLedger, pendingTrades, nextConfirmId, tasks, executions, gatewayCalls, cancelled, trades>>
    /\ UNCHANGED <<spendVars, callVars, botVars, authVars, parseVars, directVars>>

\* handleWrite: parseIntent returned a place_bet intent
handleWriteParsed(agentOutput) ==
    /\ routed.pc = "parse"
    /\ routed' = [routed EXCEPT !.pc = "done", !.parsed = "place_bet"]
    /\ handleWriteGate(1, routed.user, agentOutput)
    /\ UNCHANGED botVars

\* handleWrite: parseIntent returned get_balance, get_trade_history or
\* query_market; each is answered with a text, from reads alone
handleWriteNoTrade ==
    /\ routed.pc = "parse"
    /\ routed' = [routed EXCEPT !.pc = "done", !.parsed = "other"]
    /\ lastResult' = TextResult(routed.user, "NO_TRADE")
    /\ UNCHANGED <<nowMs, spendLedger, pendingTrades, nextConfirmId, tasks, executions, gatewayCalls, cancelled, trades>>
    /\ UNCHANGED <<spendVars, callVars, botVars, authVars, parseVars, directVars>>

\* handleWrite: parseIntent returned null, tryDeterministicWriteFallback up to
\* the await of the daily-limit gate; null from the fallback is answered
\* with the could-not-parse text.  selectedMarket is what the market
\* resolution gave (NULL: no active matching market).  The recent-trades
\* branch needs words that Words does not hold.
tryDeterministicWriteFallback(selectedMarket) ==
    /\ routed.pc = "parse"
    /\ routed' = [routed EXCEPT !.pc = "done", !.parsed = "failure"]
    /\ LET normalized == toLowerCase(trim(routed.message))
           amountMatch == test(MONEY_REFERENCE_PATTERN, normalized)
           isSell == test({"sell", "exit", "close"}, normalized)
           action == IF isSell THEN "SELL" ELSE "BUY"
           outcome == IF test({"up", "yes", "long"}, normalized) THEN "YES"
                      ELSE IF test({"down", "no", "short"}, normalized) THEN "NO"
                      ELSE NULL
           hasVerb == test({"bet", "buy", "sell", "trade", "market", "exit", "close"}, normalized)
           assetQuery == IF test({"bitcoin", "btc"}, normalized) THEN "bitcoin up or down"
                         ELSE IF test({"ethereum", "eth"}, normalized) THEN "ethereum up or down"
                         ELSE NULL
           reply == IF ~amountMatch \/ outcome = NULL \/ ~hasVerb THEN "COULD_NOT_PARSE"
                    ELSE IF amountDollars(normalized) <= 0 THEN "AMOUNT_INVALID"
                    ELSE IF assetQuery = NULL THEN "COULD_NOT_PARSE"
                    ELSE IF selectedMarket = NULL THEN "NO_MATCHING_MARKET"
                    ELSE NULL
       IN  IF reply # NULL
           THEN /\ lastResult' = TextResult(routed.user, reply)
                /\ UNCHANGED <<nowMs, spendLedger, pendingTrades, nextConfirmId, tasks, executions, gatewayCalls, cancelled, trades>>
                /\ UNCHANGED <<spendVars, callVars, botVars, authVars, parseVars, directVars>>
           ELSE /\ handleWriteGate(1, routed.user,
                       [marketId |-> selectedMarket, outcome |-> outcome, action |-> action,
                        amountCents |-> amountDollars(normalized) * 100])
                /\ UNCHANGED botVars

\* the fallback goes on with a market it found, handleWrite with whatever
\* getMarketById gave
NextRoute ==
    \/ routed.pc = "start" /\ \E message \in Messages, discordUserId \in Users : routeMessage(message, discordUserId)
    \/ \E agentOutput \in Intents : handleWriteParsed(agentOutput)
    \/ handleWriteNoTrade
    \/ \E selectedMarket \in MarketIds \cup {NULL} : tryDeterministicWriteFallback(selectedMarket)
    \/ handleWriteDenied(1)
    \/ \E status \in MarketStatuses \cup {NULL}, account \in Accounts :
          /\ routed.parsed = "failure" => status # NULL
          /\ handleWriteValidate(1, status, account)

SpecRoute == Init /\ [][NextRoute]_vars

(***************************************************************************)
(* routeMessage when a dependency throws                                   *)
(***************************************************************************)
\* the promise routeMessage returned is rejected
RejectedResult == [op |-> "route", user |-> NULL, id |-> 0, type |-> "rejected", code |-> "EXCEPTION", amountDollars |-> NULL]

\* the read path with a read service or an explainer that throws:
\* `await this.handleRead(message)` sits inside the try, the catch answers
\* with the generic text
routeMessageReadThrows(message, discordUserId) ==
    /\ routed.pc = "start"
    /\ ~isDeterministicWriteMessage(message)
    /\ classifyMessageIntent(message) = "READ"
    /\ routed' = [pc |-> "done", message |-> message, user |-> discordUserId, parsed |-> NULL]
    /\ lastResult' = TextResult(discordUserId, "SOMETHING_WENT_WRONG")
    /\ UNCHANGED <<nowMs, spendLedger, pendingTrades, nextConfirmId, tasks, executions, gatewayCalls, cancelled, trades>>
    /\ UNCHANGED <<spendVars, callVars, botVars, authVars, parseVars, directVars>>

\* handleWrite with get_balance or get_trade_history from parseIntent and a
\* trader whose gateway lookup throws: the promise of handleWrite is
\* rejected.  routeMessage returned that promise without awaiting it, so
\* its catch does not run and its own promise is rejected with the error.
handleWriteNoTradeThrows ==
    /\ routed.pc = "parse"
    /\ routed' = [routed EXCEPT !.pc = "done", !.parsed = "other"]
    /\ lastResult' = RejectedResult
    /\ UNCHANGED <<nowMs, spendLedger, pendingTrades, nextConfirmId, tasks, executions, gatewayCalls, cancelled, trades>>
    /\ UNCHANGED <<spendVars, callVars, botVars, authVars, parseVars, directVars>>

NextThrow ==
    \/ routed.pc = "start" /\ \E message \in Messages, discordUserId \in Users : routeMessage(message, discordUserId)
    \/ \E agentOutput \in Intents : handleWriteParsed(agentOutput)
    \/ handleWriteNoTrade
    \/ \E selectedMarket \in MarketIds \cup {NULL} : tryDeterministicWriteFallback(selectedMarket)
    \/ handleWriteDenied(1)
    \/ \E status \in MarketStatuses \cup {NULL}, account \in Accounts :
          /\ routed.parsed = "failure" => status # NULL
          /\ handleWriteValidate(1, status, account)
    \/ routed.pc = "start" /\ \E message \in Messages, discordUserId \in Users : routeMessageReadThrows(message, discordUserId)
    \/ handleWriteNoTradeThrows

SpecThrow == Init /\ [][NextThrow]_vars

(***************************************************************************)
(* storage/limits.ts: the same calls made, one after the other, on the     *)
(* in-memory ledger and on the Redis ledger                                *)
(***************************************************************************)
Observation(op, mem, redis) == [op |-> op, n |-> observed.n + 1, key |-> NULL, mem |-> mem, redis |-> redis]

\* no call is in flight and another one may be made
CanCall == observed.key = NULL /\ observed.n < MaxObserved

bothTrySpend(u, amountCents) ==
    /\ CanCall
    /\ LET refused == memGetSpent(spendLedger, u, nowMs) + amountCents > DAILY_LIMIT_CENTS
           run == TRY_SPEND_LUA(redisStore, redisKey(u, nowMs), amountCents, DAILY_LIMIT_CENTS, REDIS_TTL_SECONDS, nowMs)
       IN  /\ spendLedger' = IF refused THEN memGetSpentLedger(spendLedger, u, nowMs)
                             ELSE memRecordSpend(memGetSpentLedger(spendLedger, u, nowMs), u, amountCents, nowMs)
           /\ redisStore' = run.store
           /\ observed' = Observation("trySpend", ~refused, run.result = 1)
    /\ UNCHANGED <<nowMs, redisAvailable, spendCalls, granted, spendResult, built, validated, classified>>
    /\ UNCHANGED <<routerVars, routed, botVars, authVars, parseVars, directVars>>

\* recordSpend: memRecordSpend on the one side, on the other
\* `await redis.incrby(key, amountCents)`
bothRecordSpend(u, amountCents) ==
    /\ CanCall
    /\ spendLedger' = memRecordSpend(spendLedger, u, amountCents, nowMs)
    /\ redisStore' = redisIncrBy(redisStore, redisKey(u, nowMs), amountCents, nowMs)
    /\ observed' = [Observation("recordSpend", "void", "void") EXCEPT !.key = redisKey(u, nowMs)]
    /\ UNCHANGED <<nowMs, redisAvailable, spendCalls, granted, spendResult, built, validated, classified>>
    /\ UNCHANGED <<routerVars, routed, botVars, authVars, parseVars, directVars>>

\* recordSpend with Redis goes on: `await redis.expire(key, REDIS_TTL_SECONDS)`
recordSpendExpire ==
    /\ observed.key # NULL
    /\ redisStore' = redisExpire(redisStore, observed.key, REDIS_TTL_SECONDS, nowMs)
    /\ observed' = [observed EXCEPT !.key = NULL]
    /\ UNCHANGED <<nowMs, spendLedger, redisAvailable, spendCalls, granted, spendResult, built, validated, classified>>
    /\ UNCHANGED <<routerVars, routed, botVars, authVars, parseVars, directVars>>

\* val ? parseInt(val, 10) : 0 of redis.get(redisKey(discordUserId))
redisGetSpentToday(store, u, t) == RedisGetNumber(store, redisKey(u, t), t)

bothGetSpentToday(u) ==
    /\ CanCall
    /\ spendLedger' = memGetSpentLedger(spendLedger, u, nowMs)
    /\ observed' = Observation("getSpentToday", memGetSpent(spendLedger, u, nowMs), redisGetSpentToday(redisStore, u, nowMs))
    /\ UNCHANGED <<nowMs, redisStore, redisAvailable, spendCalls, granted, spendResult, built, validated, classified>>
    /\ UNCHANGED <<routerVars, routed, botVars, authVars, parseVars, directVars>>

bothGetRemainingToday(u) ==
    /\ CanCall
    /\ spendLedger' = memGetSpentLedger(spendLedger, u, nowMs)
    /\ observed' = Observation("getRemainingToday",
                               Max(0, DAILY_LIMIT_CENTS - memGetSpent(spendLedger, u, nowMs)),
                               Max(0, DAILY_LIMIT_CENTS - redisGetSpentToday(redisStore, u, nowMs)))
    /\ UNCHANGED <<nowMs, redisStore, redisAvailable, spendCalls, granted, spendResult, built, validated, classified>>
    /\ UNCHANGED <<routerVars, routed, botVars, authVars, parseVars, directVars>>

NextBoth ==
    \/ \E u \in Users, amountCents \in SpendAmounts : bothTrySpend(u, amountCents)
    \/ \E u \in Users, amountCents \in SpendAmounts : bothRecordSpend(u, amountCents)
    \/ recordSpendExpire
    \/ \E u \in Users : bothGetSpentToday(u)
    \/ \E u \in Users : bothGetRemainingToday(u)
    \/ observed.key = NULL /\ advanceDay

SpecBoth == Init /\ [][NextBoth]_vars

(***************************************************************************)
(* parseIntent                                                             *)
(***************************************************************************)
\* JSON values as JSON.parse gives them, and undefined for a missing key
Undefined == [t |-> "undefined", v |-> "", n |-> 0]

JsonNull == [t |-> "null", v |-> "", n |-> 0]

Str(s) == [t |-> "string", v |-> s, n |-> 0]

Num(n) == [t |-> "number", v |-> "finite", n |-> n]

\* JSON.parse("1e999")
Infinity == [t |-> "number", v |-> "Infinity", n |-> 0]

Bool(b) == [t |-> "boolean", v |-> IF b THEN "true" ELSE "false", n |-> 0]

typeof(x) == x.t

NumberIsFinite(x) == x.t = "number" /\ x.v = "finite"

Keys == {"intent", "userId", "marketId", "outcome", "action", "amountCents", "rawText", "limit", "query", "admin"}

\* Object.keys(value)
ObjectKeys(value) == {k \in Keys : value[k] # Undefined}

SUPPORTED_INTENTS == {"place_bet", "get_balance", "get_trade_history", "query_market"}

hasValidRawText(value) == value.rawText = Undefined \/ typeof(value.rawText) = "string"

hasOnlyKeys(value, allowed) == \A key \in ObjectKeys(value) : key \in allowed

\* isAgentOutput without the guard against extra keys
isAgentOutput_AnyKeys(parsed) ==
    /\ parsed.kind = "object"
    /\ LET value == parsed.fields
       IN  /\ typeof(value.intent) = "string" /\ value.intent.v \in SUPPORTED_INTENTS
           /\ typeof(value.userId) = "string"
           /\ hasValidRawText(value)
           /\ value.intent.v = "place_bet" =>
                 /\ typeof(value.marketId) = "string"
                 /\ value.outcome \in {Str("YES"), Str("NO")}
                 /\ NumberIsFinite(value.amountCents)
                 /\ value.action \in {Undefined, Str("BUY"), Str("SELL")}
           /\ value.intent.v = "get_trade_history" => (value.limit = Undefined \/ NumberIsFinite(value.limit))
           /\ value.intent.v = "query_market" =>
                 /\ value.marketId = Undefined \/ typeof(value.marketId) = "string"
                 /\ value.query = Undefined \/ typeof(value.query) = "string"

\* isRecord, then the checks of the variant named by value.intent
isAgentOutput(parsed) ==
    /\ parsed.kind = "object"
    /\ LET value == parsed.fields
       IN  /\ typeof(value.intent) = "string" /\ value.intent.v \in SUPPORTED_INTENTS
           /\ typeof(value.userId) = "string"
           /\ hasValidRawText(value)
           /\ CASE value.intent.v = "place_bet" ->
                     /\ typeof(value.marketId) = "string"
                     /\ value.outcome \in {Str("YES"), Str("NO")}
                     /\ NumberIsFinite(value.amountCents)
                     /\ value.action \in {Undefined, Str("BUY"), Str("SELL")}
                     /\ hasOnlyKeys(value, {"intent", "userId", "marketId", "outcome", "action", "amountCents", "rawText"})
                [] value.intent.v = "get_balance" ->
                     hasOnlyKeys(value, {"intent", "userId", "rawText"})
                [] value.intent.v = "get_trade_history" ->
                     /\ value.limit = Undefined \/ NumberIsFinite(value.limit)
                     /\ hasOnlyKeys(value, {"intent", "userId", "limit", "rawText"})
                [] value.intent.v = "query_market" ->
                     /\ value.marketId = Undefined \/ typeof(value.marketId) = "string"
                     /\ value.query = Undefined \/ typeof(value.query) = "string"
                     /\ hasOnlyKeys(value, {"intent", "userId", "marketId", "query", "rawText"})

\* the object toBrandedAgentOutput builds: the variant's fields, nothing else
toBrandedAgentOutput(value) ==
    LET kept == CASE value.intent.v = "place_bet" -> {"intent", "userId", "marketId", "outcome", "action", "amountCents", "rawText"}
                  [] value.intent.v = "get_balance" -> {"intent", "userId", "rawText"}
                  [] value.intent.v = "get_trade_history" -> {"intent", "userId", "limit", "rawText"}
                  [] OTHER -> {"intent", "userId", "marketId", "query", "rawText"}
    IN  [k \in Keys |->
            IF k \notin kept THEN Undefined
            ELSE IF k = "action" /\ value.action = Undefined THEN Str("BUY")
            ELSE IF k = "marketId" /\ value.intent.v = "query_market" /\ value.marketId = Str("") THEN Undefined
            ELSE value[k]]

\* parseIntent(rawMessage, userId) for what Gemini answered.  content:
\* kind "throws" (callGemini rejects), "empty" (null or ''), "malformed"
\* (JSON.parse throws), "null", "array", "primitive" or "object" (what
\* JSON.parse returns)
parseIntent(blankMessage, hasGeminiKeys, content, userId) ==
    IF blankMessage \/ ~hasGeminiKeys THEN JsonNull
    ELSE IF content.kind \in {"throws", "empty", "malformed", "null"} THEN JsonNull
    ELSE IF ~isAgentOutput(content) THEN JsonNull
    ELSE IF content.fields.userId # Str(userId) THEN JsonNull
    ELSE toBrandedAgentOutput(content.fields)

\* the objects Gemini may answer with, key by key
ParsedObjects ==
    [intent : {Undefined, Str("place_bet"), Str("get_balance"), Str("get_trade_history"), Str("query_market"), Str("transfer"), Num(1)},
     userId : {Undefined, Num(1)} \cup {Str(u) : u \in Users},
     marketId : {Undefined, Str("m1"), Num(1)},
     outcome : {Undefined, Str("YES"), Str("NO"), Str("MAYBE")},
     action : {Undefined, Str("SELL"), Str("HOLD")},
     amountCents : {Undefined, Num(500), Infinity, Str("500")},
     rawText : {Undefined, Str("text"), Num(1)},
     limit : {Undefined, Num(5), Str("5")},
     query : {Undefined, Str("q")},
     admin : {Undefined, Bool(TRUE)}]

NoFields == [k \in Keys |-> Undefined]

Contents ==
    {[kind |-> k, fields |-> NoFields] : k \in {"throws", "empty", "malformed", "null", "array", "primitive"}}
    \cup {[kind |-> "object", fields |-> o] : o \in ParsedObjects}

callParseIntent(blankMessage, hasGeminiKeys, content, userId) ==
    /\ parseCall' = [op |-> "parseIntent", userId |-> userId, blankMessage |-> blankMessage, hasGeminiKeys |-> hasGeminiKeys,
                     content |-> content, result |-> parseIntent(blankMessage, hasGeminiKeys, content, userId)]
    /\ UNCHANGED <<nowMs, spendLedger, spendVars, callVars>>
    /\ UNCHANGED <<routerVars, routed, botVars, authVars, directVars>>

NextParse ==
    /\ parseCall.op = "none"
    /\ \E content \in Contents, userId \in Users :
          \/ callParseIntent(FALSE, TRUE, content, userId)
          \/ /\ content.kind # "object"
             /\ \E blankMessage, hasGeminiKeys \in BOOLEAN : callParseIntent(blankMessage, hasGeminiKeys, content, userId)

SpecParse == Init /\ [][NextParse]_vars

(***************************************************************************)
(* trading/UserAccountTrader.ts: placeTrade called directly, over a        *)
(* gateway that resolves or throws anything                                *)
(***************************************************************************)
MaxTraderCalls == 2

\* strings a thrown object can carry as its code
ThrownCodeStrings == TradeErrorCodes \cup {"ECONNRESET", "rate_limited", "insufficient_balance", ""}

\* values of the property `code`
ThrownCodeValues == {Str(c) : c \in ThrownCodeStrings} \cup {Num(429), JsonNull, Undefined}

\* a thrown value: its typeof, whether it is null, whether it has a
\* property `code`, and that property's value
ThrownValue(t, isNull, hasCode, code) == [t |-> t, isNull |-> isNull, hasCode |-> hasCode, code |-> code]

\* objects with a code, `new Error(...)` without one, null, a thrown string,
\* undefined
ThrownValues ==
    {ThrownValue("object", FALSE, TRUE, c) : c \in ThrownCodeValues}
        \cup {ThrownValue("object", FALSE, FALSE, Undefined),
              ThrownValue("object", TRUE, FALSE, Undefined),
              ThrownValue("string", FALSE, FALSE, Undefined),
              ThrownValue("undefined", FALSE, FALSE, Undefined)}

isCodeError(value) ==
    /\ value.t = "object"
    /\ ~value.isNull
    /\ value.hasCode
    /\ typeof(value.code) = "string"

\* the `catch` branch of placeTrade
placeTradeCatch(error) ==
    [ok |-> FALSE,
     errorCode |-> mapExecutionErrorToTradeErrorCode(IF isCodeError(error) THEN error.code.v ELSE "NO_CODE")]

GatewayResolved == [resolved |-> TRUE, error |-> ThrownValue("undefined", FALSE, FALSE, Undefined)]

GatewayThrew(error) == [resolved |-> FALSE, error |-> error]

GatewayBehaviours == {GatewayResolved} \cup {GatewayThrew(e) : e \in ThrownValues}

callPlaceTrade(gateway) ==
    /\ Len(traderCalls) < MaxTraderCalls
    /\ traderCalls' = Append(traderCalls,
          [gateway |-> gateway,
           result |-> IF gateway.resolved THEN placeTrade("OK") ELSE placeTradeCatch(gateway.error)])
    /\ UNCHANGED <<nowMs, spendLedger, spendVars, callVars>>
    /\ UNCHANGED <<routerVars, routed, botVars, authVars, parseVars, dedupVars, linkVars, geminiVars>>

NextTrader == \E gateway \in GatewayBehaviours : callPlaceTrade(gateway)

SpecTrader == Init /\ [][NextTrader]_vars

(***************************************************************************)
(* The bot with a sweep that keeps firing and a clock that keeps moving    *)
(***************************************************************************)
\* confirmations are registered early enough for the clock of the model to
\* pass their expiry
RegistrationOpen == nowMs + 2 * CLOCK_STEP_MS <= StartMs + MaxTicks * CLOCK_STEP_MS

NextLive ==
    \/ \E u \in Users, intent \in Intents : routeMessageAlone(u, intent)
    \/ handleWriteDenied(1)
    \/ \E status \in MarketStatuses \cup {NULL}, account \in Accounts : RegistrationOpen /\ handleWriteValidate(1, status, account)
    \/ \E confirmId \in ConfirmIds : executePendingTrade(confirmId) /\ UNCHANGED botVars
    \/ \E confirmId \in ConfirmIds, outcome \in GatewayOutcomes : executeClosureResume(confirmId, outcome)
    \/ \E confirmId \in ConfirmIds : cancelPendingTrade(confirmId)
    \/ purgeExpired
    \/ advanceClock

\* setInterval keeps calling the sweep and Date.now() keeps growing; nobody
\* has to confirm, cancel or send anything
SpecLive == Init /\ [][NextLive]_vars /\ WF_vars(purgeExpired) /\ WF_vars(advanceClock)

(***************************************************************************)
(* The bot with orders under the exchange's minimum                        *)
(***************************************************************************)
\* place_bet intents of one cent under the minimum and of the minimum
MinIntents == [marketId : MarketIds, outcome : Outcomes, action : Actions,
               amountCents : {CLOB_MIN_ORDER_CENTS - 1, CLOB_MIN_ORDER_CENTS}]

\* the messages handled one after the other, as in SpecSeq
NextMin ==
    \/ \E u \in Users, intent \in MinIntents : routeMessageAlone(u, intent)
    \/ handleWriteDenied(1)
    \/ \E status \in MarketStatuses \cup {NULL}, account \in Accounts : handleWriteValidate(1, status, account)
    \/ \E confirmId \in ConfirmIds : executePendingTrade(confirmId) /\ UNCHANGED botVars
    \/ \E confirmId \in ConfirmIds, outcome \in GatewayOutcomes : executeClosureResume(confirmId, outcome)
    \/ \E confirmId \in ConfirmIds : cancelPendingTrade(confirmId)
    \/ purgeExpired
    \/ advanceClock

SpecMin == Init /\ [][NextMin]_vars

(***************************************************************************)
(* server/authServer.ts and the /connect slash command                     *)
(***************************************************************************)
RECURSIVE SumOver(_, _)
SumOver(f, S) == IF S = {} THEN 0 ELSE LET x == CHOOSE y \in S : TRUE IN f[x] + SumOver(f, S \ {x})

\* sessions.size
sessionsSize(store) == SumOver(store, DOMAIN store)

\* sessions.set(sessionId, session) under a fresh randomUUID
sessionsSet(store, expiresAtMs) ==
    MapSet(store, expiresAtMs, IF expiresAtMs \in DOMAIN store THEN store[expiresAtMs] + 1 ELSE 1)

\* POST /api/session with the bot's secret and a discordUserId: 503 when
\* the store holds MAX_SESSIONS sessions, a new session otherwise
postApiSession ==
    /\ sessionCalls < MaxSessionCalls
    /\ sessionCalls' = sessionCalls + 1
    /\ sessions' = IF sessionsSize(sessions) >= MAX_SESSIONS
                   THEN sessions
                   ELSE sessionsSet(sessions, nowMs + SESSION_TTL_MS)
    /\ UNCHANGED <<nowMs, spendLedger, spendVars, callVars>>
    /\ UNCHANGED <<routerVars, routed, botVars, parseVars, directVars>>

\* the /connect slash command: a new session, written straight into the
\* server's map
handleAccountLinkSlashCommandConnect ==
    /\ sessionCalls < MaxSessionCalls
    /\ sessionCalls' = sessionCalls + 1
    /\ sessions' = sessionsSet(sessions, nowMs + SESSION_TTL_MS)
    /\ UNCHANGED <<nowMs, spendLedger, spendVars, callVars>>
    /\ UNCHANGED <<routerVars, routed, botVars, parseVars, directVars>>

\* the server's setInterval callback (every 5 minutes)
purgeExpiredSessions ==
    /\ \E e \in DOMAIN sessions : e < nowMs
    /\ sessions' = [e \in {x \in DOMAIN sessions : ~(x < nowMs)} |-> sessions[e]]
    /\ UNCHANGED <<nowMs, spendLedger, spendVars, callVars, sessionCalls>>
    /\ UNCHANGED <<routerVars, routed, botVars, parseVars, directVars>>

advanceSessionClock ==
    /\ nowMs + CLOCK_STEP_MS <= StartMs + MaxSessionTicks * CLOCK_STEP_MS
    /\ nowMs' = nowMs + CLOCK_STEP_MS
    /\ UNCHANGED <<spendLedger, spendVars, callVars, authVars, parseVars, directVars>>
    /\ UNCHANGED <<routerVars, routed, botVars, parseVars, directVars>>

\* the store as earlier POST /api/session requests left it: some number of
\* unexpired sessions up to the cap
InitAuth ==
    /\ InitCommon
    /\ redisAvailable = FALSE
    /\ \E n \in {0, 1, MAX_SESSIONS - 2, MAX_SESSIONS - 1, MAX_SESSIONS} :
          sessions = IF n = 0 THEN << >> ELSE [e \in {StartMs + SESSION_TTL_MS} |-> n]

NextAuth ==
    \/ postApiSession
    \/ handleAccountLinkSlashCommandConnect
    \/ purgeExpiredSessions
    \/ advanceSessionClock

SpecAuth == InitAuth /\ [][NextAuth]_vars

(***************************************************************************)
(* index.ts: the messageCreate handler around the router                   *)
(***************************************************************************)
\* userCooldowns.get(discordUserId) ?? 0
lastCmd(discordUserId) ==
    IF discordUserId \in DOMAIN userCooldowns THEN userCooldowns[discordUserId] ELSE 0

\* a please-wait reply that also records the time of the refused command
messageCreateCooldown_Restarts(discordUserId) ==
    /\ nowMs - lastCmd(discordUserId) < COOLDOWN_MS
    /\ lastResult' = TextResult(discordUserId, "PLEASE_WAIT")
    /\ userCooldowns' = MapSet(userCooldowns, discordUserId, nowMs)
    /\ UNCHANGED <<nowMs, spendLedger, pendingTrades, nextConfirmId, tasks, executions, gatewayCalls, cancelled, trades>>
    /\ UNCHANGED <<spendVars, callVars, routed, gatewayLog, authVars, parseVars, directVars>>

\* a command within the cooldown of the user's last accepted one: the
\* please-wait reply, nothing else
messageCreateCooldown(discordUserId) ==
    /\ nowMs - lastCmd(discordUserId) < COOLDOWN_MS
    /\ lastResult' = TextResult(discordUserId, "PLEASE_WAIT")
    /\ UNCHANGED <<nowMs, spendLedger, pendingTrades, nextConfirmId, tasks, executions, gatewayCalls, cancelled, trades>>
    /\ UNCHANGED <<spendVars, callVars, routed, botVars, authVars, parseVars, directVars>>

\* a command outside the cooldown: the time is recorded and the text goes to
\* router.routeMessage, here a text that resolves to a place_bet intent; the
\* step runs to the await of the daily-limit gate.  The commands are taken
\* one after the other, as in SpecSeq.
messageCreate(discordUserId, intent) ==
    /\ ~(nowMs - lastCmd(discordUserId) < COOLDOWN_MS)
    /\ userCooldowns' = MapSet(userCooldowns, discordUserId, nowMs)
    /\ \A t \in TaskIds : tasks[t].pc = "idle"
    /\ handleWriteGate(1, discordUserId, intent)
    /\ UNCHANGED <<routed, gatewayLog>>

\* the time at which the confirmation was registered and its buttons shown
promptedAtMs(confirmId) == pendingTrades[confirmId].expiresAtMs - PENDING_TTL_MS

\* awaitMessageComponent is still waiting for a click on this confirmation
awaitingClick(confirmId) ==
    /\ confirmId \in DOMAIN pendingTrades
    /\ nowMs - promptedAtMs(confirmId) < CONFIRM_TIMEOUT_MS

\* the author clicks Confirm: router.executePendingTrade(result.confirmId)
clickConfirm(confirmId) ==
    /\ awaitingClick(confirmId)
    /\ executePendingTrade(confirmId)
    /\ gatewayLog' = IF gatewayCalls'[confirmId] # gatewayCalls[confirmId]
                     THEN [gatewayLog EXCEPT ![pendingTrades[confirmId].req.discordUserId] = Append(@, nowMs)]
                     ELSE gatewayLog
    /\ UNCHANGED userCooldowns

\* the author clicks Cancel: router.cancelPendingTrade(result.confirmId)
clickCancel(confirmId) ==
    /\ awaitingClick(confirmId)
    /\ cancelPendingTrade(confirmId)

\* 60 seconds without a click: router.cancelPendingTrade(result.confirmId)
awaitTimedOut(confirmId) ==
    /\ confirmId \in DOMAIN pendingTrades
    /\ ~(nowMs - promptedAtMs(confirmId) < CONFIRM_TIMEOUT_MS)
    /\ cancelPendingTrade(confirmId)

\* the clock moves on by a cooldown or by a confirmation timeout
advanceBotClock(stepMs) ==
    /\ nowMs + stepMs <= StartMs + MaxBotTicks * COOLDOWN_MS + CONFIRM_TIMEOUT_MS
    /\ nowMs' = nowMs + stepMs
    /\ lastResult' = NoResult
    /\ UNCHANGED <<spendLedger, pendingTrades, nextConfirmId, tasks, executions, gatewayCalls, cancelled, trades>>
    /\ UNCHANGED <<spendVars, callVars, routed, botVars, authVars, parseVars, directVars>>

\* the commands of the harness: one user, orders of the exchange's minimum
BotUsers == {"u1"}

BotIntents == {intent \in Intents : intent.action = "BUY" /\ intent.amountCents = CLOB_MIN_ORDER_CENTS}

NextBot ==
    \/ \E discordUserId \in BotUsers : messageCreateCooldown(discordUserId)
    \/ \E discordUserId \in BotUsers, intent \in BotIntents : messageCreate(discordUserId, intent)
    \/ handleWriteDenied(1)
    \/ \E status \in MarketStatuses \cup {NULL}, account \in Accounts : handleWriteValidate(1, status, account)
    \/ \E confirmId \in ConfirmIds : clickConfirm(confirmId)
    \/ \E confirmId \in ConfirmIds, outcome \in GatewayOutcomes : executeClosureResume(confirmId, outcome)
    \/ \E confirmId \in ConfirmIds : clickCancel(confirmId)
    \/ \E confirmId \in ConfirmIds : awaitTimedOut(confirmId)
    \/ purgeExpired
    \/ \E stepMs \in {COOLDOWN_MS, CONFIRM_TIMEOUT_MS} : advanceBotClock(stepMs)

SpecBot == Init /\ [][NextBot]_vars

(***************************************************************************)
(* The message handler under a clock finer than the cooldown               *)
(***************************************************************************)
MaxCooldownTicks == 4

\* half a cooldown passes
advanceCooldownClock ==
    /\ nowMs + COOLDOWN_MS \div 2 <= StartMs + MaxCooldownTicks * (COOLDOWN_MS \div 2)
    /\ nowMs' = nowMs + COOLDOWN_MS \div 2
    /\ lastResult' = NoResult
    /\ UNCHANGED <<spendLedger, pendingTrades, nextConfirmId, tasks, executions, gatewayCalls, cancelled, trades>>
    /\ UNCHANGED <<spendVars, callVars, routed, botVars, authVars, parseVars, directVars>>

NextCooldown ==
    \/ \E discordUserId \in Users : messageCreateCooldown(discordUserId)
    \/ \E discordUserId \in Users, intent \in Intents : messageCreate(discordUserId, intent)
    \/ handleWriteDenied(1)
    \/ \E status \in MarketStatuses \cup {NULL}, account \in Accounts : handleWriteValidate(1, status, account)
    \/ advanceCooldownClock

SpecCooldown == Init /\ [][NextCooldown]_vars

(***************************************************************************)
(* The message handler's deduplication of message events                   *)
(***************************************************************************)
MaxMessageId == 501
MaxDedupTicks == 1

\* message ids whose event Discord delivers again
RedeliveredIds == {1, PROCESSED_EVICT + 1}

SeqHas(seq, x) == \E i \in 1..Len(seq) : seq[i] = x

\* processedMessages.add(id), then the oldest 100 are deleted when the set
\* holds more than 500
processedAdd(seq, id) ==
    LET added == Append(seq, id)
    IN  IF Len(added) > PROCESSED_MAX
        THEN SubSeq(added, PROCESSED_EVICT + 1, Len(added))
        ELSE added

\* the messageCreate event of message id, written by discordUserId and
\* mentioning the bot: deduplication, cooldown, then router.routeMessage
messageCreateEvent(id, discordUserId) ==
    /\ IF SeqHas(processedMessages, id)
       THEN UNCHANGED <<processedMessages, userCooldowns, routedTimes, lastResult>>
       ELSE /\ processedMessages' = processedAdd(processedMessages, id)
            /\ IF nowMs - lastCmd(discordUserId) < COOLDOWN_MS
               THEN /\ lastResult' = TextResult(discordUserId, "PLEASE_WAIT")
                    /\ UNCHANGED <<userCooldowns, routedTimes>>
               ELSE /\ userCooldowns' = MapSet(userCooldowns, discordUserId, nowMs)
                    /\ routedTimes' = MapSet(routedTimes, id, IF id \in DOMAIN routedTimes THEN routedTimes[id] + 1 ELSE 1)
                    /\ lastResult' = NoResult
    /\ UNCHANGED <<nowMs, spendLedger, pendingTrades, nextConfirmId, tasks, executions, gatewayCalls, cancelled, trades>>
    /\ UNCHANGED <<spendVars, callVars, routed, gatewayLog, authVars, parseVars, traderCalls, linkVars, geminiVars>>

\* a new message
messageCreateNew(discordUserId) ==
    /\ nextMessageId <= MaxMessageId
    /\ nextMessageId' = nextMessageId + 1
    /\ messageCreateEvent(nextMessageId, discordUserId)

\* the event of an earlier message is delivered again
messageCreateAgain(id, discordUserId) ==
    /\ id < nextMessageId
    /\ UNCHANGED nextMessageId
    /\ messageCreateEvent(id, discordUserId)

\* a cooldown passes
advanceDedupClock ==
    /\ nowMs + COOLDOWN_MS <= StartMs + MaxDedupTicks * COOLDOWN_MS
    /\ nowMs' = nowMs + COOLDOWN_MS
    /\ lastResult' = NoResult
    /\ UNCHANGED <<spendLedger, pendingTrades, nextConfirmId, tasks, executions, gatewayCalls, cancelled, trades>>
    /\ UNCHANGED <<spendVars, callVars, routed, botVars, authVars, parseVars, directVars>>

NextDedup ==
    \/ \E discordUserId \in BotUsers : messageCreateNew(discordUserId)
    \/ \E id \in RedeliveredIds, discordUserId \in BotUsers : messageCreateAgain(id, discordUserId)
    \/ advanceDedupClock

SpecDedup == Init /\ [][NextDedup]_vars

(***************************************************************************)
(* auth/AccountLinkChallengeService.ts and AccountLinkVerificationService  *)
(* over the in-memory challenge store: verifyLink calls that overlap       *)
(***************************************************************************)
MaxNonces == 2
MaxVerifyCalls == 2

DEFAULT_CHALLENGE_TTL_MS == 5 * 60 * 1000

VerifyCallIds == 1..MaxVerifyCalls

\* store.getActive(discordUserId)
getActive(discordUserId) ==
    IF discordUserId \in DOMAIN byDiscordUserId THEN byDiscordUserId[discordUserId] ELSE JsonNull

\* the errorCode of validateWithoutConsume for the challenge read, "OK" when
\* it passes
validateWithoutConsume(challenge, nonce, t) ==
    IF challenge = JsonNull THEN "CHALLENGE_NOT_FOUND"
    ELSE IF challenge.nonce # nonce THEN "NONCE_MISMATCH"
    ELSE IF challenge.expiresAtMs <= t THEN "CHALLENGE_EXPIRED"
    ELSE IF challenge.used THEN "CHALLENGE_ALREADY_USED"
    ELSE "OK"

\* the store's map after markUsed(nonce)
markUsed(nonce) ==
    IF nonce \notin DOMAIN ownerByNonce THEN byDiscordUserId
    ELSE IF ownerByNonce[nonce] \notin DOMAIN byDiscordUserId THEN byDiscordUserId
    ELSE [byDiscordUserId EXCEPT ![ownerByNonce[nonce]].used = TRUE]

\* issueChallenge: the user's unused, unexpired challenge is returned, or a
\* new one is created under a fresh nonce
issueChallenge(discordUserId) ==
    /\ nextNonce <= MaxNonces
    /\ LET existing == getActive(discordUserId)
       IN  IF existing # JsonNull /\ ~existing.used /\ existing.expiresAtMs > nowMs
           THEN UNCHANGED <<byDiscordUserId, ownerByNonce, nextNonce>>
           ELSE /\ byDiscordUserId' = MapSet(byDiscordUserId, discordUserId,
                      [discordUserId |-> discordUserId, nonce |-> nextNonce, issuedAtMs |-> nowMs,
                       expiresAtMs |-> nowMs + DEFAULT_CHALLENGE_TTL_MS, used |-> FALSE])
                /\ ownerByNonce' = MapSet(ownerByNonce, nextNonce, discordUserId)
                /\ nextNonce' = nextNonce + 1
    /\ UNCHANGED <<nowMs, spendLedger, spendVars, callVars, verifyCalls, verifyOk>>
    /\ UNCHANGED <<routerVars, routed, botVars, authVars, parseVars, traderCalls, dedupVars, geminiVars>>

\* verifyLink up to `await signatureVerifier.verify`: the challenge is read
\* and validated, not consumed.  A call that fails validation returns
\* CHALLENGE_INVALID and leaves nothing behind.
verifyLinkValidate(c, discordUserId, nonce) ==
    /\ c \notin DOMAIN verifyCalls
    /\ validateWithoutConsume(getActive(discordUserId), nonce, nowMs) = "OK"
    /\ verifyCalls' = MapSet(verifyCalls, c, [discordUserId |-> discordUserId, nonce |-> getActive(discordUserId).nonce])
    /\ UNCHANGED <<nowMs, spendLedger, spendVars, callVars, byDiscordUserId, ownerByNonce, nextNonce, verifyOk>>
    /\ UNCHANGED <<routerVars, routed, botVars, authVars, parseVars, traderCalls, dedupVars, geminiVars>>

\* verifyLink resumes with the verifier's answer: SIGNATURE_INVALID, or
\* consumeChallenge (markUsed, which checks nothing) and the ok result
verifyLinkResume(c, signatureIsValid) ==
    /\ c \in DOMAIN verifyCalls
    /\ IF signatureIsValid
       THEN /\ byDiscordUserId' = markUsed(verifyCalls[c].nonce)
            /\ verifyOk' = MapSet(verifyOk, verifyCalls[c].nonce,
                                  IF verifyCalls[c].nonce \in DOMAIN verifyOk THEN verifyOk[verifyCalls[c].nonce] + 1 ELSE 1)
       ELSE UNCHANGED <<byDiscordUserId, verifyOk>>
    /\ verifyCalls' = MapDelete(verifyCalls, c)
    /\ UNCHANGED <<nowMs, spendLedger, spendVars, callVars, ownerByNonce, nextNonce>>
    /\ UNCHANGED <<routerVars, routed, botVars, authVars, parseVars, traderCalls, dedupVars, geminiVars>>

NextLink ==
    \/ \E discordUserId \in Users : issueChallenge(discordUserId)
    \/ \E c \in VerifyCallIds, discordUserId \in Users, nonce \in 1..MaxNonces : verifyLinkValidate(c, discordUserId, nonce)
    \/ \E c \in VerifyCallIds, signatureIsValid \in BOOLEAN : verifyLinkResume(c, signatureIsValid)
    \/ advanceClock

SpecLink == Init /\ [][NextLink]_vars

(***************************************************************************)
(* read/aiClient.ts: callGeminiFallback and the rotation of the keys        *)
(***************************************************************************)
\* the first key whose disable period is over, 0 for null
getAvailableGeminiKey(states, now) ==
    IF \E k \in GeminiKeys : now >= states[k]
    THEN CHOOSE k \in GeminiKeys : now >= states[k] /\ \A j \in GeminiKeys : (j < k => ~(now >= states[j]))
    ELSE 0

disableGeminiKey(states, key, now) == [states EXCEPT ![key] = now + GEMINI_COOLDOWN_MS]

\* one turn of `while (true)` up to its await or its return: the call as it
\* stands after it, for the key states and tried keys it starts from
geminiLoop(states, call) ==
    LET key == getAvailableGeminiKey(states, nowMs)
    IN  IF key = 0 \/ key \in call.triedKeys
        THEN [call EXCEPT !.pc = "done", !.result = "exhausted",
                          !.untried = {k \in GeminiKeys : k \notin call.triedKeys /\ nowMs >= states[k]}]
        ELSE [call EXCEPT !.pc = "request", !.key = key, !.triedKeys = @ \cup {key}, !.requests = @ + 1]

\* a call starts and runs to its first request, or returns at once
callGeminiFallback ==
    /\ geminiCall.pc # "request"
    /\ geminiCalls < MaxGeminiCalls
    /\ geminiCalls' = geminiCalls + 1
    /\ geminiCall' = geminiLoop(geminiKeyStates, NoGeminiCall)
    /\ UNCHANGED <<nowMs, spendLedger, spendVars, callVars, geminiKeyStates>>
    /\ UNCHANGED <<routerVars, routed, botVars, authVars, parseVars, traderCalls, dedupVars, linkVars>>

\* generateContent resolves: the trimmed text, or null for an empty one
generateContentResolves(hasText) ==
    /\ geminiCall.pc = "request"
    /\ geminiCall' = [geminiCall EXCEPT !.pc = "done", !.result = IF hasText THEN "text" ELSE "empty"]
    /\ UNCHANGED <<nowMs, spendLedger, spendVars, callVars, geminiKeyStates, geminiCalls>>
    /\ UNCHANGED <<routerVars, routed, botVars, authVars, parseVars, traderCalls, dedupVars, linkVars>>

\* generateContent rejects: a rate-limit error disables the key and the loop
\* goes round, any other error returns null
generateContentRejects(isGeminiRateLimitError) ==
    /\ geminiCall.pc = "request"
    /\ IF isGeminiRateLimitError
       THEN /\ geminiKeyStates' = disableGeminiKey(geminiKeyStates, geminiCall.key, nowMs)
            /\ geminiCall' = geminiLoop(geminiKeyStates', geminiCall)
       ELSE /\ geminiCall' = [geminiCall EXCEPT !.pc = "done", !.result = "error"]
            /\ UNCHANGED geminiKeyStates
    /\ UNCHANGED <<nowMs, spendLedger, spendVars, callVars, geminiCalls>>
    /\ UNCHANGED <<routerVars, routed, botVars, authVars, parseVars, traderCalls, dedupVars, linkVars>>

\* half a disable period passes
advanceGeminiClock ==
    /\ nowMs + GEMINI_COOLDOWN_MS \div 2 <= StartMs + MaxGeminiTicks * (GEMINI_COOLDOWN_MS \div 2)
    /\ nowMs' = nowMs + GEMINI_COOLDOWN_MS \div 2
    /\ UNCHANGED <<spendLedger, spendVars, callVars>>
    /\ UNCHANGED <<routerVars, routed, botVars, authVars, parseVars, directVars>>

NextGemini ==
    \/ callGeminiFallback
    \/ \E hasText \in BOOLEAN : generateContentResolves(hasText)
    \/ \E isGeminiRateLimitError \in BOOLEAN : generateContentRejects(isGeminiRateLimitError)
    \/ advanceGeminiClock

\* the provider answers every request; nothing makes the clock move or a
\* new call start
SpecGeminiLive == Init /\ [][NextGemini]_vars
    /\ WF_vars(\E hasText \in BOOLEAN : generateContentResolves(hasText))
    /\ WF_vars(\E isGeminiRateLimitError \in BOOLEAN : generateContentRejects(isGeminiRateLimitError))

(***************************************************************************)
(* Properties                                                              *)
(***************************************************************************)
NonExempt == {u \in Users : ~isOwnerExempt(u)}

\* C1: for every non-exempt user the BUY spend recorded for one UTC day
\* never exceeds the daily ceiling of 500 cents, in every reachable state.
\* The code checks canSpend when the request comes in and records the spend
\* only when an execution succeeded, so two confirmations created while
\* nothing is recorded yet both execute.
C1_DailyCeiling ==
    \A u \in NonExempt \cap DOMAIN spendLedger : \A d \in DOMAIN spendLedger[u] :
        spendLedger[u][d] <= DAILY_LIMIT_CENTS

\* C2: for every confirmation id the gateway call bound to it is started at
\* most once, over every interleaving of executePendingTrade,
\* cancelPendingTrade and the purge.
C2_ExecutesAtMostOnce == \A id \in ConfirmIds : gatewayCalls[id] <= 1

\* a confirmation was executed, its execution is over and it is gone
C2_Witness ==
    \E id \in ConfirmIds :
        /\ gatewayCalls[id] = 1
        /\ id \notin DOMAIN executions
        /\ id \notin DOMAIN pendingTrades
        /\ lastResult.op = "execute" /\ lastResult.id = id

\* the time since the registered confirmation id was created
Age(id) == nowMs - pendingTrades[id].req.requestedAtMs

\* no step starts the execution of the registered confirmation id
NotExecuted(id) ==
    /\ gatewayCalls'[id] = gatewayCalls[id]
    /\ id \notin DOMAIN executions'

\* C3 as stated: once 5 minutes or more have passed since a confirmation
\* was created, no executePendingTrade call invokes the gateway for it
\* (the call returns null), whether or not the purge has run.
C3_NoExecutionFromFiveMinutes ==
    [][\A id \in DOMAIN pendingTrades : Age(id) >= PENDING_TTL_MS => NotExecuted(id)]_vars

\* C3 amended: once more than 5 minutes have passed since a confirmation
\* was created, no executePendingTrade call invokes the gateway for it (the
\* call returns null), whether or not the purge has run.
C3_NoExecutionAfterFiveMinutes ==
    [][\A id \in DOMAIN pendingTrades : Age(id) > PENDING_TTL_MS => NotExecuted(id)]_vars

\* executePendingTrade has just returned null for a registered, expired
\* confirmation that the purge had not removed
C3_Witness ==
    \E id \in ConfirmIds :
        /\ lastResult = ExecuteResult(id, "NULL_EXPIRED")
        /\ gatewayCalls[id] = 0
        /\ cancelled[id] = 0

\* C4: of the executePendingTrade / cancelPendingTrade attempts on one
\* unexpired confirmation id exactly one succeeds: a confirmation is claimed
\* at most once, the attempt that finds it registered and unexpired
\* succeeds, and an attempt that finds it consumed succeeds never.
C4_ExactlyOneClaim ==
    /\ [](\A id \in ConfirmIds : gatewayCalls[id] + cancelled[id] <= 1)
    /\ [][\A id \in DOMAIN pendingTrades :
            (~(pendingTrades[id].expiresAtMs < nowMs) /\ id \notin DOMAIN pendingTrades')
                => gatewayCalls'[id] + cancelled'[id] = gatewayCalls[id] + cancelled[id] + 1]_vars
    /\ [][\A id \in ConfirmIds \ DOMAIN pendingTrades :
            gatewayCalls'[id] = gatewayCalls[id] /\ cancelled'[id] = cancelled[id]]_vars

\* a confirmation was cancelled and is consumed, and another one was
\* executed and is consumed
C4_Witness ==
    \E id, id2 \in ConfirmIds :
        /\ cancelled[id] = 1 /\ gatewayCalls[id] = 0
        /\ gatewayCalls[id2] = 1 /\ cancelled[id2] = 0
        /\ id \notin DOMAIN pendingTrades
        /\ id2 \notin DOMAIN pendingTrades

\* C7: of the accepted requests that carry one idempotency key the
\* exchange performs the trade for at most one.  The gateway posts an order
\* for every call, whatever its idempotency key.
C7_NoDuplicateTrade == \A k \in DOMAIN trades : trades[k] <= 1

\* C8: after a non-exempt user with nothing spent today was given a
\* ConfirmationRequest for a 500-cent BUY, a second 500-cent BUY request of
\* that user on the same UTC day, with the first neither confirmed nor
\* cancelled, creates no second PendingConfirmation.
C8_SecondBuyRejected ==
    ~ \E i, j \in DOMAIN pendingTrades :
        /\ i < j
        /\ lastResult.op = "route" /\ lastResult.type = "confirm" /\ lastResult.id = j
        /\ pendingTrades[i].req.discordUserId = pendingTrades[j].req.discordUserId
        /\ pendingTrades[i].req.discordUserId \in NonExempt
        /\ pendingTrades[i].req.action = "BUY" /\ pendingTrades[j].req.action = "BUY"
        /\ pendingTrades[i].req.amountCents = 500 /\ pendingTrades[j].req.amountCents = 500
        /\ utcDateKey(pendingTrades[i].req.requestedAtMs) = utcDateKey(pendingTrades[j].req.requestedAtMs)
        /\ getSpentToday(spendLedger, pendingTrades[i].req.discordUserId, pendingTrades[i].req.requestedAtMs) = 0

\* C9: when routeMessage returns a ConfirmationRequest for a BUY of amount a
\* by a non-exempt user, spentToday(user) already includes a.  The code
\* records the spend only after a successful execution.
C9_ReservedAtCreation ==
    (lastResult.op = "route" /\ lastResult.type = "confirm" /\ lastResult.code = "BUY" /\ lastResult.user \in NonExempt)
        => getSpentToday(spendLedger, lastResult.user, nowMs) >= pendingTrades[lastResult.id].req.amountCents

\* the ledger (in memory or in Redis) holds a counter for user u and day d
HasBucketIn(ledger, store, u, d, t) ==
    IF redisAvailable THEN RedisExists(store, redisKey(u, d * DAY_MS), t)
    ELSE u \in DOMAIN ledger /\ d \in DOMAIN ledger[u]

\* that counter, 0 where the ledger holds none
SpentIn(ledger, store, u, d, t) ==
    IF ~HasBucketIn(ledger, store, u, d, t) THEN 0
    ELSE IF redisAvailable THEN store[redisKey(u, d * DAY_MS)].value
    ELSE ledger[u][d]

HasBucket(u, d) == HasBucketIn(spendLedger, redisStore, u, d, nowMs)

SpentOn(u, d) == SpentIn(spendLedger, redisStore, u, d, nowMs)

Days == utcDateKey(StartMs)..utcDateKey(StartMs + MaxDays * DAY_MS)

\* C5: trySpend is linearizable per user: whatever the overlap of the
\* calls, the amounts of the calls that returned true for one user and day
\* add up to at most the ceiling, and the recorded spend of that day is
\* exactly that total (every grant was decided on the counter the grants
\* before it left).
C5_TrySpendLinearizable ==
    \A u \in Users, d \in Days :
        /\ GrantedOn(u, d) <= DAILY_LIMIT_CENTS
        /\ HasBucket(u, d) => SpentOn(u, d) = GrantedOn(u, d)

\* with Redis, two overlapping calls of one user were both issued when the
\* counter had room for either, one was granted and the other has just been
\* refused
C5_Witness ==
    /\ redisAvailable
    /\ spendResult.op = "trySpend" /\ ~spendResult.value
    /\ spendResult.amountCents <= DAILY_LIMIT_CENTS
    /\ GrantedOn(spendResult.user, spendResult.day) > 0
    /\ GrantedOn(spendResult.user, spendResult.day) = SpentOn(spendResult.user, spendResult.day)
    /\ utcDateKey(nowMs) = spendResult.day
    /\ spendCalls = << >>

\* trySpend(u, a) returns true exactly when the day's counter plus a is
\* within the limit, and then adds exactly a to it
TrySpendVerdict ==
    LET u == spendResult'.user
        a == spendResult'.amountCents
        d == spendResult'.day
    IN  /\ spendResult'.value = (SpentOn(u, d) + a <= DAILY_LIMIT_CENTS)
        /\ spendResult'.value => SpentIn(spendLedger', redisStore', u, d, nowMs') = SpentOn(u, d) + a

\* no counter changes and none appears; the buckets that disappear are
\* buckets of user u older than the day before d
OnlyStaleEvicted(u, d) ==
    /\ redisStore' = redisStore
    /\ DOMAIN spendLedger' = DOMAIN spendLedger
    /\ \A x \in DOMAIN spendLedger :
        /\ DOMAIN spendLedger'[x] \subseteq DOMAIN spendLedger[x]
        /\ \A k \in DOMAIN spendLedger'[x] : spendLedger'[x][k] = spendLedger[x][k]
        /\ \A k \in DOMAIN spendLedger[x] \ DOMAIN spendLedger'[x] : x = u /\ k < d - 1

\* C6 as stated: trySpend(user, amount) returns true exactly when
\* spentToday(user) + amount <= limit and then increases the user's counter
\* of the current UTC day by exactly amount; when it returns false the
\* ledger is unchanged.
C6_TrySpendUnchangedOnFalse ==
    [][spendResult'.op = "trySpend" =>
        /\ TrySpendVerdict
        /\ ~spendResult'.value => (spendLedger' = spendLedger /\ redisStore' = redisStore)]_vars

\* C6 amended: trySpend(user, amount) returns true exactly when
\* spentToday(user) + amount <= limit and then increases the user's counter
\* of the current UTC day by exactly amount; when it returns false no
\* counter changes: the only change it can make is that the in-memory
\* ledger drops buckets of that user older than the previous UTC day.
C6_TrySpendNoCounterChangeOnFalse ==
    [][spendResult'.op = "trySpend" =>
        /\ TrySpendVerdict
        /\ ~spendResult'.value => OnlyStaleEvicted(spendResult'.user, spendResult'.day)]_vars

\* without Redis, a refused trySpend two days after the user's only grants:
\* the bucket of those grants is gone
C6_Witness ==
    /\ ~redisAvailable
    /\ spendResult.op = "trySpend" /\ ~spendResult.value
    /\ spendResult.day = utcDateKey(StartMs) + 2
    /\ GrantedOn(spendResult.user, utcDateKey(StartMs)) > 0
    /\ GrantedOn(spendResult.user, utcDateKey(StartMs) + 1) = 0
    /\ GrantedOn(spendResult.user, utcDateKey(StartMs) + 2) = 0
    /\ spendLedger[spendResult.user] = << >>

\* two TradeRequests built from the same intent, identity and market
SameCall(r1, r2) ==
    /\ r1.discordUserId = r2.discordUserId
    /\ r1.polymarketAccountId = r2.polymarketAccountId
    /\ r1.marketId = r2.marketId
    /\ r1.outcome = r2.outcome
    /\ r1.action = r2.action
    /\ r1.amountCents = r2.amountCents

FiveMinuteBucket(t) == t \div (5 * 60 * 1000)

\* C10: two buildTradeRequest calls with identical intent, identity and
\* market get the same idempotency key when their times lie in the same
\* 5-minute bucket and different keys when they lie in different buckets.
C10_KeyFollowsBucket ==
    \A i, j \in 1..Len(built) :
        SameCall(built[i], built[j]) =>
            /\ FiveMinuteBucket(built[i].requestedAtMs) = FiveMinuteBucket(built[j].requestedAtMs)
                => built[i].idempotencyKey = built[j].idempotencyKey
            /\ FiveMinuteBucket(built[i].requestedAtMs) # FiveMinuteBucket(built[j].requestedAtMs)
                => built[i].idempotencyKey # built[j].idempotencyKey

\* three calls with the same inputs: two at different times of one bucket,
\* the third in the next bucket
C10_Witness ==
    /\ Len(built) = 3
    /\ SameCall(built[1], built[2]) /\ SameCall(built[1], built[3])
    /\ built[1].requestedAtMs # built[2].requestedAtMs
    /\ FiveMinuteBucket(built[1].requestedAtMs) = FiveMinuteBucket(built[2].requestedAtMs)
    /\ FiveMinuteBucket(built[1].requestedAtMs) # FiveMinuteBucket(built[3].requestedAtMs)
    /\ built[1].idempotencyKey = built[2].idempotencyKey
    /\ built[1].idempotencyKey # built[3].idempotencyKey

\* the amount of the intent is greater than the whole number x
AmountAbove(agentOutput, x) ==
    \/ agentOutput.amountCents > x
    \/ agentOutput.amountCents = x /\ agentOutput.amountTenths > 0

\* the amount of the intent is a positive integer
PositiveInteger(agentOutput) == agentOutput.amountTenths = 0 /\ agentOutput.amountCents > 0

\* the checks of validation in their fixed order: whether the request
\* fails the check, and the code of that failure
ValidationChecks(agentOutput, context) ==
    << [fails |-> context.polymarketAccountId = NULL, code |-> "ACCOUNT_NOT_CONNECTED"],
       [fails |-> context.marketLookup[agentOutput.marketId] = NULL, code |-> "INVALID_MARKET"],
       [fails |-> context.marketLookup[agentOutput.marketId] \notin {NULL, "active"}, code |-> "MARKET_NOT_ACTIVE"],
       [fails |-> ~PositiveInteger(agentOutput), code |-> "INVALID_AMOUNT"],
       [fails |-> AmountAbove(agentOutput, context.remainingDailyLimitCents), code |-> "LIMIT_EXCEEDED"],
       [fails |-> AmountAbove(agentOutput, HOURLY_LIMIT_CENTS - context.spentThisHourCents), code |-> "LIMIT_EXCEEDED"] >>

\* C11: validate returns the error of the first failing check in the
\* fixed order account, market known, market active, amount a positive
\* integer, amount within the remaining daily allowance, amount within the
\* hourly ceiling; it returns Ok exactly when no check fails.
C11_FirstFailingCheck ==
    validated.op = "validate" =>
        LET checks == ValidationChecks(validated.agentOutput, validated.context)
            failing == {i \in 1..Len(checks) : checks[i].fails}
        IN  IF failing = {}
            THEN validated.result = OkResult
            ELSE validated.result = ErrResult(checks[CHOOSE i \in failing : \A j \in failing : i <= j].code)

\* a request that fails the market check and the amount check gets the
\* error of the market check
C11_Witness ==
    /\ validated.op = "validate"
    /\ validated.context.polymarketAccountId # NULL
    /\ validated.context.marketLookup[validated.agentOutput.marketId] = "closed"
    /\ validated.agentOutput.amountCents <= 0
    /\ validated.result = ErrResult("MARKET_NOT_ACTIVE")

\* the request has an active market and an amount a with
\* 500 <= a <= remaining daily allowance
ActiveAndWithinRemaining ==
    /\ validated.op = "validate"
    /\ validated.context.marketLookup[validated.agentOutput.marketId] = "active"
    /\ validated.agentOutput.amountCents >= 500
    /\ ~AmountAbove(validated.agentOutput, validated.context.remainingDailyLimitCents)

\* C12 as stated: for every place_bet request whose market is active and
\* whose amount a satisfies 500 <= a <= remaining daily allowance, validate
\* returns Ok.
C12_OkWithinRemaining == ActiveAndWithinRemaining => validated.result = OkResult

\* C12 amended: for every place_bet request with a resolved account, an
\* active market and an amount a that is a whole number of cents with
\* 500 <= a <= remaining daily allowance and spentThisHour + a <= 500 (the
\* hourly ceiling), validate returns Ok.
C12_OkWithinRemainingAndHour ==
    (/\ ActiveAndWithinRemaining
     /\ validated.context.polymarketAccountId # NULL
     /\ validated.agentOutput.amountTenths = 0
     /\ validated.context.spentThisHourCents + validated.agentOutput.amountCents <= HOURLY_LIMIT_CENTS)
        => validated.result = OkResult

\* a request of exactly 500 cents with 500 cents remaining is accepted
C12_Witness ==
    /\ ActiveAndWithinRemaining
    /\ validated.agentOutput.amountCents = validated.context.remainingDailyLimitCents
    /\ validated.result = OkResult

\* the amount of the request is zero, negative or not an integer
BadAmount ==
    /\ validated.op = "validate"
    /\ ~PositiveInteger(validated.agentOutput)

\* C13 as stated: for every place_bet request whose amount is zero,
\* negative or not an integer, validate returns INVALID_AMOUNT.
C13_BadAmountRejected == BadAmount => validated.result = ErrResult("INVALID_AMOUNT")

\* C13 amended: for every place_bet request with a resolved account and an
\* active market whose amount is zero, negative or not an integer,
\* validate returns INVALID_AMOUNT.
C13_BadAmountRejectedOnActiveMarket ==
    (/\ BadAmount
     /\ validated.context.polymarketAccountId # NULL
     /\ validated.context.marketLookup[validated.agentOutput.marketId] = "active")
        => validated.result = ErrResult("INVALID_AMOUNT")

\* a positive amount that is not an integer, within every limit, is refused
C13_Witness ==
    /\ BadAmount
    /\ validated.agentOutput.amountCents > 0
    /\ validated.agentOutput.amountCents < validated.context.remainingDailyLimitCents
    /\ validated.context.spentThisHourCents + validated.agentOutput.amountCents < HOURLY_LIMIT_CENTS
    /\ validated.result = ErrResult("INVALID_AMOUNT")

(***************************************************************************)
(* C14  Sells never touch the ledger.  A SELL request passes the daily-limit *)
(* gate whatever spend is recorded for the user and the gate leaves the    *)
(* ledger alone; the reply to the request depends only on the request, the *)
(* market and the account, never on the ledger; and neither creating the   *)
(* confirmation nor executing it changes the ledger.                       *)
(***************************************************************************)
SellIntents == {intent \in Intents : intent.action = "SELL"}

\* the reply to a SELL, computed from the request, the market status and the
\* account alone
SellReply(u, intent, status, account, confirmId) ==
    IF account = NULL THEN TextResult(u, "ACCOUNT_NOT_CONNECTED")
    ELSE IF status = NULL THEN TextResult(u, "INVALID_MARKET")
    ELSE IF status # "active" THEN TextResult(u, "MARKET_NOT_ACTIVE")
    ELSE IF intent.amountCents > DAILY_LIMIT_CENTS_STUB THEN TextResult(u, "LIMIT_EXCEEDED")
    ELSE ConfirmResult(u, confirmId, intent)

\* C14: a SELL passes the gate whatever is recorded, its reply is SellReply,
\* and the gate, the confirmation and the execution leave the ledger as it was
C14_SellsNeverTouchLedger ==
    [][/\ \A t \in TaskIds, u \in Users, intent \in SellIntents :
            handleWriteGate(t, u, intent) =>
                /\ tasks'[t].pc = "resolve"
                /\ spendLedger' = spendLedger
       /\ \A t \in TaskIds, status \in MarketStatuses \cup {NULL}, account \in Accounts :
            (tasks[t].intent.action = "SELL" /\ handleWriteValidate(t, status, account)) =>
                /\ lastResult' = SellReply(tasks[t].user, tasks[t].intent, status, account, nextConfirmId)
                /\ spendLedger' = spendLedger
       /\ \A confirmId \in DOMAIN executions :
            (executions[confirmId].action = "SELL" /\ confirmId \notin DOMAIN executions') =>
                spendLedger' = spendLedger]_vars

\* a SELL of a user whose daily allowance is used up gets its confirmation
C14_Witness ==
    /\ lastResult.op = "route"
    /\ lastResult.type = "confirm"
    /\ lastResult.code = "SELL"
    /\ lastResult.user \in NonExempt
    /\ getSpentToday(spendLedger, lastResult.user, nowMs) >= DAILY_LIMIT_CENTS

(***************************************************************************)
(* C15  The owner is fully exempt from the spend limit: a BUY of the owner *)
(* is never refused by the daily-limit gate and its validation never       *)
(* answers LIMIT_EXCEEDED, whatever its amount and whatever is recorded.   *)
(* The gate does skip the owner, but validation compares every amount with *)
(* the fixed remaining allowance of the validation context.                *)
(***************************************************************************)
LimitReplies == {"DAILY_LIMIT_REACHED", "LIMIT_EXCEEDED"}

\* C15: the owner is never refused by the gate, and a BUY of the owner is
\* never answered with a limit reply
C15_OwnerNeverLimited ==
    [][\A t \in TaskIds :
          /\ (tasks'[t].pc = "denied") => ~isOwnerExempt(tasks'[t].user)
          /\ (/\ tasks[t].pc = "resolve"
              /\ tasks'[t].pc = "idle"
              /\ isOwnerExempt(tasks[t].user)
              /\ tasks[t].intent.action = "BUY") => lastResult'.code \notin LimitReplies]_vars

(***************************************************************************)
(* C16  classify(text) is WRITE exactly when the trimmed text is not empty *)
(* and it either holds account-scoped vocabulary, or holds no question     *)
(* marker and holds both an action verb and a monetary reference; in every *)
(* other case it is READ.  Account vocabulary wins over a question marker, *)
(* and a question marker wins over verb plus amount.                       *)
(***************************************************************************)
\* the lexemes of the message that are not blanks, in lower case
Said(message) == {toLowerCase(message)[i] : i \in {j \in 1..Len(message) : message[j] # Blank}}

HasAccountVocabulary(message) == Said(message) \cap ACCOUNT_WRITE_PATTERN # {}

HasActionVerb(message) == Said(message) \cap WRITE_ACTION_VERB_PATTERN # {}

HasMonetaryReference(message) == Said(message) \cap MONEY_REFERENCE_PATTERN # {}

\* a question mark, or a question word as the first thing said
HasQuestionMarker(message) ==
    \/ "?" \in Said(message)
    \/ \E i \in 1..Len(message) :
          /\ message[i] \in QUESTION_WORDS
          /\ \A j \in 1..(i - 1) : message[j] = Blank

C17_ReadNeverEntersWritePath ==
    (routed.pc # "start" /\ classifyMessageIntent(routed.message) = "READ") =>
        /\ routed.pc = "done"
        /\ routed.parsed = NULL
        /\ pendingTrades = << >>

C18_CancelClaimsRegistered ==
    /\ [][\A id \in ConfirmIds :
            /\ cancelPendingTrade(id) =>
                  IF id \in DOMAIN pendingTrades
                  THEN /\ lastResult' = CancelResult(id, "true")
                       /\ pendingTrades' = MapDelete(pendingTrades, id)
                  ELSE UNCHANGED vars
            /\ cancelled'[id] # cancelled[id] =>
                  /\ id \in DOMAIN pendingTrades
                  /\ lastResult' = CancelResult(id, "true")
            /\ (cancelled[id] > 0 /\ executePendingTrade(id)) => UNCHANGED vars]_vars
    /\ [](\A id \in ConfirmIds :
            cancelled[id] > 0 =>
                /\ id \notin DOMAIN pendingTrades
                /\ id \notin DOMAIN executions
                /\ gatewayCalls[id] = 0)

\* a cancellation has just returned true, with another confirmation still
\* registered
C18_Witness ==
    \E id \in ConfirmIds :
        /\ lastResult = CancelResult(id, "true")
        /\ cancelled[id] = 1
        /\ gatewayCalls[id] = 0
        /\ id \notin DOMAIN pendingTrades
        /\ pendingTrades # << >>

(***************************************************************************)
(* C19  The Redis-backed ledger and the in-memory ledger are               *)
(* observationally equivalent: for every sequence of trySpend,             *)
(* recordSpend, getSpentToday and getRemainingToday calls made on both at  *)
(* the same times, every call returns the same value from both.  The calls *)
(* are made one after the other, with whole numbers of cents, on a Redis   *)
(* server that answers.                                                    *)
(***************************************************************************)
C19_SameObservations == observed.mem = observed.redis

\* on a later day than the first call, after a recordSpend took a user past
\* the limit, both refuse a trySpend
C19_Witness ==
    /\ observed.op = "trySpend"
    /\ observed.mem = FALSE
    /\ observed.redis = FALSE
    /\ utcDateKey(nowMs) > utcDateKey(StartMs)
    /\ \E u \in Users : memGetSpent(spendLedger, u, nowMs) > DAILY_LIMIT_CENTS

(***************************************************************************)
(* C21  No automatic retry and no silent release.  Within one              *)
(* executePendingTrade call the gateway is invoked at most once, and when  *)
(* the execution fails the call leaves the recorded spend exactly as it    *)
(* was.                                                                    *)
(***************************************************************************)
\* C21: a running execution has invoked the gateway once and never invokes
\* it again, and the step that ends it with a failure changes no counter
C21_NoRetryNoRelease ==
    [][\A id \in DOMAIN executions :
          /\ gatewayCalls[id] = 1
          /\ gatewayCalls'[id] = 1
          /\ (id \notin DOMAIN executions' /\ lastResult'.code # "OK") => spendLedger' = spendLedger]_vars

\* an execution has just failed while spend is on record
C21_Witness ==
    /\ lastResult.op = "execute"
    /\ lastResult.code \in TradeErrorCodes
    /\ gatewayCalls[lastResult.id] = 1
    /\ \E u \in Users : getSpentToday(spendLedger, u, nowMs) > 0

(***************************************************************************)
(* C22  The gateway is only ever invoked for a trade whose intent passed   *)
(* validateAgentOutput with Ok and for which a TradeRequest was then       *)
(* built: a PendingConfirmation is registered only by a handleWrite call   *)
(* whose intent validated Ok, it holds the TradeRequest built from that    *)
(* intent, and the gateway is invoked only with the request of a           *)
(* registered confirmation.                                                *)
(***************************************************************************)
\* C22: every new registry entry comes from a validated intent, and every
\* gateway invocation from a registry entry
C22_OnlyValidatedReachGateway ==
    [][\A id \in ConfirmIds :
          /\ id \in DOMAIN pendingTrades' \ DOMAIN pendingTrades =>
                \E t \in TaskIds, account \in Accounts, status \in MarketStatuses \cup {NULL} :
                    /\ tasks[t].pc = "resolve"
                    /\ validateAgentOutput(tasks[t].intent, buildValidationContext(account, [m \in MarketIds |-> status])).ok
                    /\ pendingTrades'[id].req =
                          buildTradeRequest(tasks[t].intent,
                              [discordUserId |-> tasks[t].user, polymarketAccountId |-> account,
                               marketId |-> tasks[t].intent.marketId, nowMs |-> nowMs])
          /\ gatewayCalls'[id] # gatewayCalls[id] =>
                /\ id \in DOMAIN pendingTrades
                /\ id \in DOMAIN executions'
                /\ executions'[id] = pendingTrades[id].req]_vars

\* the gateway is running a registered request, after another request was
\* turned down by validation
C22_Witness ==
    \E id \in DOMAIN executions :
        /\ gatewayCalls[id] = 1
        /\ lastResult.op = "route"
        /\ lastResult.type = "text"
        /\ lastResult.code \in {"LIMIT_EXCEEDED", "MARKET_NOT_ACTIVE", "INVALID_MARKET", "ACCOUNT_NOT_CONNECTED"}

(***************************************************************************)
(* Cooldown                                                                *)
(***************************************************************************)
\* C23: no user has more than one trade executed within one cooldown
\* window: any two gateway invocations made for the same user are at least
\* COOLDOWN_MS apart
C23_ExecutionsCooldownApart ==
    \A u \in Users : \A i, j \in DOMAIN gatewayLog[u] :
        i < j => gatewayLog[u][j] - gatewayLog[u][i] >= COOLDOWN_MS

(***************************************************************************)
(* Link sessions                                                           *)
(***************************************************************************)
\* C24: the link-session store never holds more than MAX_SESSIONS sessions,
\* whichever way sessions are created
C24_SessionsCapped == sessionsSize(sessions) <= MAX_SESSIONS

(***************************************************************************)
(* The exchange's minimum order                                            *)
(***************************************************************************)
\* a request under the minimum comes back from the gateway
SubMinimumReturns(id, outcome) ==
    /\ id \in DOMAIN executions
    /\ executions[id].amountCents < CLOB_MIN_ORDER_CENTS
    /\ executeClosureResume(id, outcome)

AllowedKeys(intent) ==
    CASE intent = "place_bet" -> {"intent", "userId", "marketId", "outcome", "action", "amountCents", "rawText"}
      [] intent = "get_balance" -> {"intent", "userId", "rawText"}
      [] intent = "get_trade_history" -> {"intent", "userId", "limit", "rawText"}
      [] intent = "query_market" -> {"intent", "userId", "marketId", "query", "rawText"}
      [] OTHER -> {}

IntentOutsideWhitelist(o) == o.intent.t # "string" \/ o.intent.v \notin SUPPORTED_INTENTS

LacksPlaceBetField(o) ==
    /\ o.intent = Str("place_bet")
    /\ \/ o.marketId.t # "string"
       \/ o.outcome \notin {Str("YES"), Str("NO")}
       \/ ~(o.amountCents.t = "number" /\ o.amountCents.v = "finite")

CarriesForeignKey(o) ==
    /\ ~IntentOutsideWhitelist(o)
    /\ \E k \in Keys : o[k] # Undefined /\ k \notin AllowedKeys(o.intent.v)

C27_RouteMessageNeverRejects == lastResult.op = "route" => lastResult.type = "text" \/ lastResult.type = "confirm"

(***************************************************************************)
(* Execution of a confirmation                                             *)
(***************************************************************************)
\* C28: executePendingTrade on an unclaimed, unexpired id invokes the
\* gateway with exactly the request bound when the confirmation was created
\* (a registered entry never changes), and does so without validation or
\* the spend-limit check running again, whatever the ledger holds by then
C28_ExecuteUsesBoundRequest ==
    [][\A id \in ConfirmIds :
          /\ (id \in DOMAIN pendingTrades /\ id \in DOMAIN pendingTrades') => pendingTrades'[id] = pendingTrades[id]
          /\ (/\ executePendingTrade(id)
              /\ id \in DOMAIN pendingTrades
              /\ ~(pendingTrades[id].expiresAtMs < nowMs)) =>
                 /\ id \in DOMAIN executions'
                 /\ executions'[id] = pendingTrades[id].req
                 /\ gatewayCalls'[id] = gatewayCalls[id] + 1
                 /\ spendLedger' = spendLedger
                 /\ tasks' = tasks]_vars

\* a BUY is at the gateway although the ledger no longer has room for it
C28_Witness ==
    \E id \in DOMAIN executions :
        /\ gatewayCalls[id] = 1
        /\ executions[id].action = "BUY"
        /\ executions[id].discordUserId \in NonExempt
        /\ ~canSpend(spendLedger, executions[id].discordUserId, executions[id].amountCents, nowMs)

(***************************************************************************)
(* The periodic sweep                                                      *)
(***************************************************************************)
\* C29: the sweep removes only entries whose expiry time has passed: an
\* entry that has not expired stays, every entry that stays is unchanged,
\* nothing is added, and no execution starts
C29_SweepRemovesOnlyExpired ==
    [][purgeExpired =>
          /\ DOMAIN pendingTrades' \subseteq DOMAIN pendingTrades
          /\ \A id \in DOMAIN pendingTrades :
                /\ ~(pendingTrades[id].expiresAtMs < nowMs) => id \in DOMAIN pendingTrades'
                /\ id \in DOMAIN pendingTrades' => pendingTrades'[id] = pendingTrades[id]
          /\ executions' = executions
          /\ gatewayCalls' = gatewayCalls
          /\ trades' = trades
          /\ spendLedger' = spendLedger]_vars

\* an expired entry is gone without a cancel or an execution, next to one
\* that has not expired and is still registered
C29_Witness ==
    /\ lastResult = NoResult
    /\ \E gone, kept \in ConfirmIds :
          /\ gone < nextConfirmId
          /\ gone \notin DOMAIN pendingTrades
          /\ cancelled[gone] = 0
          /\ gatewayCalls[gone] = 0
          /\ kept \in DOMAIN pendingTrades
          /\ ~(pendingTrades[kept].expiresAtMs < nowMs)

(***************************************************************************)
(* The registry empties                                                    *)
(***************************************************************************)
\* C30: every PendingConfirmation is eventually removed from the registry;
\* one that is never confirmed or cancelled is removed by the sweep after
\* its expiry, given that the sweep keeps firing and time advances
C30_EveryConfirmationRemoved ==
    \A id \in ConfirmIds : (id \in DOMAIN pendingTrades) ~> (id \notin DOMAIN pendingTrades)

\* confirmations were registered, nobody confirmed or cancelled any, and the
\* registry is empty after their expiry
C30_Witness ==
    /\ nextConfirmId > 1
    /\ pendingTrades = << >>
    /\ \A id \in ConfirmIds : cancelled[id] = 0 /\ gatewayCalls[id] = 0
    /\ nowMs > StartMs + PENDING_TTL_MS
    /\ lastResult = NoResult

(***************************************************************************)
(* Eviction of day-buckets                                                 *)
(***************************************************************************)
\* the in-memory ledger holds a bucket of day d for user u
memHasBucket(u, d) == u \in DOMAIN spendLedger /\ d \in DOMAIN spendLedger[u]

\* the bucket of day d is older than the previous UTC day
StaleDay(d) == d < utcDateKey(nowMs) - 1

LedgerDays == utcDateKey(StartMs)..(utcDateKey(StartMs) + MaxDays)

\* C31: every stale day-bucket of the spend ledger (older than the previous
\* UTC day) is eventually evicted, also for a user who issues no further
\* command
C31_StaleBucketsEventuallyEvicted ==
    \A u \in Users, d \in LedgerDays :
        (memHasBucket(u, d) /\ StaleDay(d)) ~> ~memHasBucket(u, d)

\* C32: eviction keeps two day-buckets: no step removes a user's bucket of
\* the current or of the previous UTC day, and after spentToday(user) (read
\* by the in-memory trySpend) that user holds no older bucket
C32_EvictionKeepsTwoDays ==
    [][/\ \A u \in Users, d \in LedgerDays :
             (memHasBucket(u, d) /\ d >= utcDateKey(nowMs') - 1) =>
                 (u \in DOMAIN spendLedger' /\ d \in DOMAIN spendLedger'[u] /\ spendLedger'[u][d] >= spendLedger[u][d])
       /\ (spendResult'.op = "trySpend" /\ ~redisAvailable /\ spendResult'.user \in DOMAIN spendLedger') =>
             \A d \in DOMAIN spendLedger'[spendResult'.user] : d >= utcDateKey(nowMs') - 1]_vars

\* a trySpend on the third day of a user who was granted spend on each of
\* the two days before: the bucket of the first day is gone, the one of the
\* second day is still there
C32_Witness ==
    /\ ~redisAvailable
    /\ spendResult.op = "trySpend"
    /\ spendResult.day = utcDateKey(StartMs) + 2
    /\ GrantedOn(spendResult.user, utcDateKey(StartMs)) > 0
    /\ GrantedOn(spendResult.user, utcDateKey(StartMs) + 1) > 0
    /\ ~memHasBucket(spendResult.user, utcDateKey(StartMs))
    /\ memHasBucket(spendResult.user, utcDateKey(StartMs) + 1)
    /\ spendLedger[spendResult.user][utcDateKey(StartMs) + 1] = GrantedOn(spendResult.user, utcDateKey(StartMs) + 1)

(***************************************************************************)
(* placeTrade turns every gateway error into a TradeResult                 *)
(***************************************************************************)
\* the thrown value is an object carrying one of the codes of the vocabulary
RecognisedCode(error) ==
    /\ error.t = "object" /\ ~error.isNull /\ error.hasCode
    /\ error.code.t = "string"
    /\ error.code.v \in TradeErrorCodes

\* C33: placeTrade never throws: every error thrown by the gateway becomes a
\* failure TradeResult whose code is one of the eight codes of the closed
\* vocabulary, a recognised code being kept as is and every other error
\* (unknown code or no code) becoming INTERNAL_ERROR
C33_GatewayErrorsBecomeResults ==
    \A i \in 1..Len(traderCalls) :
        LET call == traderCalls[i]
        IN  ~call.gateway.resolved =>
                /\ call.result.ok = FALSE
                /\ call.result.errorCode \in TradeErrorCodes
                /\ call.result.errorCode = IF RecognisedCode(call.gateway.error)
                                           THEN call.gateway.error.code.v
                                           ELSE "INTERNAL_ERROR"

\* one call kept a recognised code, another turned an unknown code into
\* INTERNAL_ERROR
C33_Witness ==
    /\ Len(traderCalls) = 2
    /\ ~traderCalls[1].gateway.resolved
    /\ traderCalls[1].gateway.error.code = Str("RATE_LIMITED")
    /\ traderCalls[1].result.errorCode = "RATE_LIMITED"
    /\ ~traderCalls[2].gateway.resolved
    /\ traderCalls[2].gateway.error.code = Str("ECONNRESET")
    /\ traderCalls[2].result.errorCode = "INTERNAL_ERROR"

(***************************************************************************)
(* What the idempotency key depends on                                     *)
(***************************************************************************)
\* the six values the key is made of
KeyInputs(r) ==
    <<r.discordUserId, r.polymarketAccountId, r.marketId, r.outcome, r.amountCents,
      r.requestedAtMs \div IDEMPOTENCY_WINDOW_MS>>

\* C34: the idempotency key depends on (userId, accountId, marketId,
\* outcome, amount, floor(now / 5 min)) and on nothing else: two requests
\* that agree on these six values get the same key, also when they differ in
\* action or in the exact time inside the bucket
C34_KeyDependsOnSixValues ==
    \A i, j \in 1..Len(built) :
        KeyInputs(built[i]) = KeyInputs(built[j]) => built[i].idempotencyKey = built[j].idempotencyKey

\* a BUY and a SELL built at different times of one bucket carry one key
C34_Witness ==
    \E i, j \in 1..Len(built) :
        /\ KeyInputs(built[i]) = KeyInputs(built[j])
        /\ built[i].action = "BUY" /\ built[j].action = "SELL"
        /\ built[i].requestedAtMs # built[j].requestedAtMs
        /\ built[i].idempotencyKey = built[j].idempotencyKey

(***************************************************************************)
(* The ledger mirrors the successful BUY executions                        *)
(***************************************************************************)
\* the spend the in-memory ledger holds for user u and day d
memSpentOn(ledger, u, d) ==
    IF u \in DOMAIN ledger /\ d \in DOMAIN ledger[u] THEN ledger[u][d] ELSE 0

\* this step is the end of a successful BUY execution of user u for amount
\* cents: placeTrade answered ok
SuccessfulBuyStep(u, amount) ==
    \E id \in DOMAIN executions :
        /\ id \notin DOMAIN executions'
        /\ lastResult' = ExecuteResult(id, "OK")
        /\ executions[id].action = "BUY"
        /\ executions[id].discordUserId = u
        /\ executions[id].amountCents = amount

\* a successful BUY of u adds its amount to u's counter of the current day
BuyRecorded ==
    \A u \in Users, amount \in Amounts :
        SuccessfulBuyStep(u, amount) =>
            memSpentOn(spendLedger', u, utcDateKey(nowMs)) = memSpentOn(spendLedger, u, utcDateKey(nowMs)) + amount

\* C35 as stated: the spend recorded for a (user, UTC day) never decreases,
\* and it changes only by one increment per successfully executed BUY of
\* that user, equal to that trade's positive integer amount; cancelled,
\* expired, failed and SELL trades add nothing
C35_LedgerNeverDecreases ==
    [][/\ BuyRecorded
       /\ \A u \in Users, d \in LedgerDays :
             LET delta == memSpentOn(spendLedger', u, d) - memSpentOn(spendLedger, u, d)
             IN  /\ delta >= 0
                 /\ delta # 0 => (delta \in Nat \ {0} /\ d = utcDateKey(nowMs) /\ SuccessfulBuyStep(u, delta))]_vars

\* C35 amended: the spend recorded for a user and the current or previous
\* UTC day never decreases, and a counter grows only by one increment per
\* successfully executed BUY of that user, equal to that trade's positive
\* integer amount; cancelled, expired, failed and SELL trades add nothing.
\* A bucket older than the previous UTC day can be dropped whole.
C35_LedgerMirrorsBuys ==
    [][/\ BuyRecorded
       /\ \A u \in Users, d \in LedgerDays :
             LET delta == memSpentOn(spendLedger', u, d) - memSpentOn(spendLedger, u, d)
             IN  /\ delta < 0 => (d < utcDateKey(nowMs) - 1 /\ memSpentOn(spendLedger', u, d) = 0)
                 /\ delta > 0 => (d = utcDateKey(nowMs) /\ SuccessfulBuyStep(u, delta))]_vars

\* u1 bought on the first day and again two days later: the ledger holds
\* the second amount under the third day and nothing under the first
C35_Witness ==
    /\ lastResult = ExecuteResult(2, "OK")
    /\ gatewayCalls[1] = 1 /\ gatewayCalls[2] = 1
    /\ "u1" \in DOMAIN spendLedger
    /\ DOMAIN spendLedger["u1"] = {utcDateKey(StartMs) + 2}
    /\ spendLedger["u1"][utcDateKey(StartMs) + 2] \in Amounts

(***************************************************************************)
(* The per-user cooldown of commands                                       *)
(***************************************************************************)
\* this step hands a command of user u to the router
ReachesRouter(u) ==
    \E t \in TaskIds : tasks[t].pc = "idle" /\ tasks'[t].pc # "idle" /\ tasks'[t].user = u

\* this step accepts a command of user u: its time is recorded
AcceptsCommand(u) ==
    /\ u \in DOMAIN userCooldowns'
    /\ (u \notin DOMAIN userCooldowns \/ userCooldowns'[u] # userCooldowns[u] \/ ReachesRouter(u))

\* this step answers a command with the wait message
AnswersPleaseWait == lastResult'.op = "route" /\ lastResult'.code = "PLEASE_WAIT"

C37_MessageRoutedAtMostOnce ==
    \A id \in DOMAIN routedTimes : routedTimes[id] <= 1

(***************************************************************************)
(* One-time use of a link challenge                                        *)
(***************************************************************************)
\* C38: a link challenge is consumed at most once: for one issued nonce at
\* most one verifyLink call returns ok, also when several verifyLink calls
\* for that nonce run concurrently
C38_ChallengeConsumedAtMostOnce ==
    \A nonce \in DOMAIN verifyOk : verifyOk[nonce] <= 1

(***************************************************************************)
(* The rotation of the Gemini keys                                         *)
(***************************************************************************)
\* one call makes at most n requests, each with a key it had not tried and
\* whose disable period is over
RotationBounded ==
    /\ geminiCall.requests <= NumGeminiKeys
    /\ geminiCall.requests = Cardinality(geminiCall.triedKeys)
    /\ geminiCall.pc = "request" => (geminiCall.key \in geminiCall.triedKeys /\ nowMs >= geminiKeyStates[geminiCall.key])

\* a rate-limit error is followed by a request with another key as long as
\* one is left: the call gives up only when every key is tried or disabled
RotationExhausts ==
    geminiCall.result = "exhausted" => geminiCall.untried = {}

\* C39: the Gemini key-rotation loop terminates: with n configured keys one
\* call makes at most n provider requests, never uses a key already tried in
\* the same call or a key whose 60-second disable period has not elapsed,
\* moves to the next key after a rate-limit error, and returns null when all
\* keys are exhausted
C39_KeyRotationTerminates ==
    /\ [](RotationBounded /\ RotationExhausts)
    /\ (geminiCall.pc = "request") ~> (geminiCall.pc = "done")
====
